---- MODULE Spec2Model ----
(***************************************************************************)
(* Fox Creek Golf Club companion app.                                      *)
(*                                                                         *)
(* Geofence trigger engine (src/src/lib/geo.ts, checkGeofence) over the   *)
(* built-in course data (FOX_CREEK_DATA), and the handicap calculator      *)
(* (src/src/lib/handicap.ts).                                              *)
(*                                                                         *)
(* Units: coordinates are integers in micro-degrees; distances are         *)
(* integers in centimetres; times are integers in milliseconds, as         *)
(* Date.getTime() gives them.                                              *)
(***************************************************************************)
EXTENDS Integers, Sequences, FiniteSets, TLC

VARIABLES params, now, trigger, calledAt, call, store, hook, hist,
          tracker, teeAlert, card, rounds, units, appSettings, loyalty, challenge

vars == <<params, now, trigger, calledAt, call, store, hook, hist,
         tracker, teeAlert, card, rounds, units, appSettings, loyalty, challenge>>

\* the variables of the components added to the engine, the calculator and
\* the hook
ext == <<tracker, teeAlert, card, rounds, units, appSettings, loyalty, challenge>>

---------------------------------------------------------------------------
(* Bounds of the model *)

\* the clock advances at most MaxTicks times, TickMs each
MaxTicks == 1

\* the remote zone list holds at most MaxZones zones
MaxZones == 2

\* currentHole ranges over MinHole..MaxHole
MaxHole == 9

---------------------------------------------------------------------------
(* Program constants *)

\* geo.ts: const TURN_HOLE = 8
TURN_HOLE == 8

\* geo.ts: const TEE_TIME_ALERT_MINUTES = 5
TEE_TIME_ALERT_MINUTES == 5

\* GeofenceZone.hole_number: number | null; null is written 0 (no hole is 0)
NullHole == 0

\* geo.ts line 268: 1000 * 60 milliseconds in a minute
MsPerMinute == 60000

\* one step of the clock: a second, in milliseconds
TickMs == MsPerMinute \div 60

\* the lowest current hole the model draws: one below the turn window
MinHole == TURN_HOLE - 2

---------------------------------------------------------------------------
(* Coordinates, in micro-degrees *)

Coord(lat, lng) == [lat |-> lat, lng |-> lng]

\* FOX_CREEK_DATA.geofences centres
ClubhouseCoords == Coord(46083000, -64683000)
RangeCoords == Coord(46084000, -64682000)
CanteenCoords == Coord(46083500, -64684000)
\* the placeholder coordinate
ZeroCoords == Coord(0, 0)
\* PRACTICE_RANGE of the tee-time alert store
PracticeRangeCoords == Coord(46069100, -64731900)

\* positions the location sensor reports in the model:
\* between clubhouse and range (40.6 m from the clubhouse centre, 94.7 m from
\* the range centre), at the range centre, and at (0,0)
PosMid == Coord(46083300, -64682700)
PosRange == RangeCoords
PosZero == ZeroCoords

Positions == {PosMid, PosRange, PosZero}

\* calculateDistance: the haversine formula with R = 6371e3, evaluated on the
\* coordinates of the model and rounded up to whole centimetres (so that
\* d <= r metres iff the value here <= 100 * r, for every whole r)
HaversineCm ==
     (<<PosMid, ClubhouseCoords>> :> 4060)
  @@ (<<PosMid, RangeCoords>> :> 9473)
  @@ (<<PosMid, CanteenCoords>> :> 10271)
  @@ (<<PosMid, ZeroCoords>> :> 808897582)
  @@ (<<PosRange, ClubhouseCoords>> :> 13533)
  @@ (<<PosRange, RangeCoords>> :> 0)
  @@ (<<PosRange, CanteenCoords>> :> 16397)
  @@ (<<PosRange, ZeroCoords>> :> 808894983)
  @@ (<<PosZero, ClubhouseCoords>> :> 808898696)
  @@ (<<PosZero, RangeCoords>> :> 808894983)
  @@ (<<PosZero, CanteenCoords>> :> 808907790)
  @@ (<<PosZero, ZeroCoords>> :> 0)
  @@ (<<PosMid, PracticeRangeCoords>> :> 411046)
  @@ (<<PracticeRangeCoords, PracticeRangeCoords>> :> 0)

calculateDistance(lat1, lon1, lat2, lon2) ==
  HaversineCm[<<Coord(lat1, lon1), Coord(lat2, lon2)>>]

---------------------------------------------------------------------------
(* Built-in course data *)

Geofence(name, coords, radiusMeters) ==
  [name |-> name, coords |-> coords, radiusMeters |-> radiusMeters]

\* every hole's teeBoxCoords and greenCoords are the placeholder (0,0)
HolePar == << 5, 3, 4, 3, 5, 4, 4, 3, 5, 5, 4, 4, 3, 4, 5, 4, 3, 4 >>

HoleHandicapIndex ==
  << 6, 16, 10, 18, 2, 12, 8, 14, 4, 3, 11, 5, 15, 7, 1, 13, 17, 9 >>

HoleData(n) ==
  [ holeNumber |-> n, par |-> HolePar[n], handicapIndex |-> HoleHandicapIndex[n],
    teeBoxCoords |-> ZeroCoords, greenCoords |-> ZeroCoords ]

TeeRating(name, mensRating, mensSlope, womensRating, womensSlope) ==
  [ name |-> name, mensRating |-> mensRating, mensSlope |-> mensSlope,
    womensRating |-> womensRating, womensSlope |-> womensSlope ]

FOX_CREEK_DATA ==
  [ par |-> 72,
    teeRatings |-> << TeeRating("Black", 738, 131, 803, 149),
                      TeeRating("Blue", 716, 128, 779, 141),
                      TeeRating("White", 698, 127, 754, 136),
                      TeeRating("Green", 678, 123, 730, 128),
                      TeeRating("Red", 641, 112, 684, 116) >>,
    geofences |-> << Geofence("Clubhouse", ClubhouseCoords, 50),
                     Geofence("Practice Range", RangeCoords, 100),
                     Geofence("Canteen", CanteenCoords, 30) >>,
    holeData |-> [n \in 1..18 |-> HoleData(n)] ]

\* Array.prototype.find: the index of the first element passing Test, 0 if none
FindIndex(s, Test(_)) ==
  LET I == {i \in 1..Len(s) : Test(s[i])}
  IN  IF I = {} THEN 0 ELSE CHOOSE i \in I : \A j \in I : i <= j

\* getHoleByNumber: the index in holeData, 0 for undefined
getHoleByNumber(holeNumber) ==
  LET T(h) == h.holeNumber = holeNumber
  IN  FindIndex(FOX_CREEK_DATA.holeData, T)

\* String.prototype.toLowerCase on the names that occur
toLowerCase(s) ==
  CASE s = "Clubhouse" -> "clubhouse"
    [] s = "Practice Range" -> "practice range"
    [] s = "Canteen" -> "canteen"
    [] OTHER -> s

---------------------------------------------------------------------------
(* Distance and geofence primitives *)

\* YARDS_PER_METER = 1.09361; Math.round(distanceMeters * YARDS_PER_METER)
\* on a distance in centimetres
metersToYardsCm(cm) == (cm * 109361 + 5000000) \div 10000000

\* getDistanceToGreen: <<>> for null, <<yards>> otherwise
getDistanceToGreen(userLat, userLng, holeNumber) ==
  LET i == getHoleByNumber(holeNumber)
  IN  IF i = 0 THEN <<>>
      ELSE LET hole == FOX_CREEK_DATA.holeData[i]
           IN  IF hole.greenCoords.lat = 0 /\ hole.greenCoords.lng = 0
               THEN <<>>
               ELSE << metersToYardsCm(calculateDistance(userLat, userLng,
                          hole.greenCoords.lat, hole.greenCoords.lng)) >>

isWithinGeofence(userLat, userLng, zone) ==
  calculateDistance(userLat, userLng, zone.latitude, zone.longitude)
    <= zone.radius_meters * 100

\* the placeholder test of isWithinLocalGeofence (geo.ts line 151)
IsPlaceholder(coords) == coords.lat = 0 /\ coords.lng = 0

isWithinLocalGeofence(userLat, userLng, geofenceName) ==
  LET T(g) == toLowerCase(g.name) = toLowerCase(geofenceName)
      i == FindIndex(FOX_CREEK_DATA.geofences, T)
  IN  IF i = 0 THEN FALSE
      ELSE LET geofence == FOX_CREEK_DATA.geofences[i]
           IN  IF IsPlaceholder(geofence.coords) THEN FALSE
               ELSE calculateDistance(userLat, userLng,
                      geofence.coords.lat, geofence.coords.lng)
                      <= geofence.radiusMeters * 100

isNearGreen(userLat, userLng, holeNumber, thresholdYards) ==
  LET distanceYards == getDistanceToGreen(userLat, userLng, holeNumber)
  IN  IF distanceYards = <<>> THEN FALSE
      ELSE distanceYards[1] <= thresholdYards

---------------------------------------------------------------------------
(* Remote zones (GeofenceZone rows of geofence_zones) *)

Zone(id, name, type, hole, coords, radius, action) ==
  [ id |-> id, zone_name |-> name, zone_type |-> type, hole_number |-> hole,
    latitude |-> coords.lat, longitude |-> coords.lng,
    radius_meters |-> radius, trigger_action |-> action, is_active |-> TRUE ]

\* the zones an administrator has configured, in the model
ZClubhouse == Zone("1", "Clubhouse", "clubhouse", NullHole, ClubhouseCoords, 50, "check_in")
ZRange == Zone("2", "Practice Range", "range", NullHole, RangeCoords, 100, "tee_alert")
ZHole1Tee == Zone("3", "Hole 1 Tee", "hole_tee", 1, ClubhouseCoords, 50, "auto_start")
ZHole8Green == Zone("4", "Hole 8 Green", "hole_green", TURN_HOLE, RangeCoords, 27, "fnb_prompt")
\* a hole-8 green row whose coordinates are still the (0,0) of the seed data
ZHole8GreenZero == Zone("5", "Hole 8 Green", "hole_green", TURN_HOLE, ZeroCoords, 27, "fnb_prompt")

ZonePool == {ZClubhouse, ZRange, ZHole1Tee, ZHole8Green, ZHole8GreenZero}

\* the position of a zone name in the order of zone_name
NameRank(name) ==
  CASE name = "Clubhouse" -> 1
    [] name = "Hole 1 Tee" -> 2
    [] name = "Hole 8 Green" -> 3
    [] name = "Practice Range" -> 4

\* getGeofenceZones: at most MaxZones distinct rows, in the order of zone_name
\* (query order: 'zone_name'); [] when the backend is not configured
ZoneLists ==
  { zs \in UNION {[1..n -> ZonePool] : n \in 0..MaxZones} :
      \A i, j \in 1..Len(zs) :
        i < j => /\ zs[i] # zs[j]
                 /\ NameRank(zs[i].zone_name) <= NameRank(zs[j].zone_name) }

---------------------------------------------------------------------------
(* GeofenceTrigger values *)

None == [type |-> "none"]
AutoStart(zone) == [type |-> "auto_start", zone |-> zone]
CheckIn(zone) == [type |-> "check_in", zone |-> zone]
TeeAlert(zone, m) == [type |-> "tee_alert", zone |-> zone, minutesUntilTeeTime |-> m]
FnbPrompt(zone, hole) == [type |-> "fnb_prompt", zone |-> zone, holeNumber |-> hole]

\* the zone descriptors checkGeofence synthesizes from the built-in data
LocalZone(id, name, type, hole, coords, radius, action) ==
  Zone(id, name, type, hole, coords, radius, action)

---------------------------------------------------------------------------
(* checkGeofence, branch by branch *)

\* mutant: the built-in data is used whatever the remote list holds
UseLocalData_Always(zones) == TRUE

\* "Fallback to local data if no Supabase zones": zones.length === 0
UseLocalData(zones) == Len(zones) = 0

\* mutant: auto-start without the checked-in condition
AutoStartGate_NoCheckIn(p) == ~p.isRoundInProgress

\* Logic D gate: isCheckedIn && !isRoundInProgress
AutoStartGate(p) == p.isCheckedIn /\ ~p.isRoundInProgress

\* Logic D: Auto-Start Round at Hole 1 Tee
LogicD(p) ==
  IF AutoStartGate(p)
  THEN LET T(z) == z.zone_type = "hole_tee" /\ z.hole_number = 1
           i == FindIndex(p.zones, T)
       IN  IF i # 0 /\ isWithinGeofence(p.userLat, p.userLng, p.zones[i])
           THEN AutoStart(p.zones[i])
           ELSE None
  ELSE None

\* mutant: check-in ignores its toggle
CheckInGate_NoToggle(p) == ~p.isCheckedIn

\* Logic A gate: settings.check_in_enabled && !isCheckedIn
CheckInGate(p) == p.settings.check_in_enabled /\ ~p.isCheckedIn

\* Logic A: Check-In at Clubhouse
LogicA(p) ==
  IF CheckInGate(p)
  THEN LET T(z) == z.zone_type = "clubhouse"
           i == FindIndex(p.zones, T)
           N(g) == g.name = "Clubhouse"
           k == FindIndex(FOX_CREEK_DATA.geofences, N)
       IN  IF i # 0 /\ isWithinGeofence(p.userLat, p.userLng, p.zones[i])
           THEN CheckIn(p.zones[i])
           ELSE IF UseLocalData(p.zones)
                   /\ isWithinLocalGeofence(p.userLat, p.userLng, "Clubhouse")
                   /\ k # 0
                THEN LET localClubhouse == FOX_CREEK_DATA.geofences[k]
                     IN  CheckIn(LocalZone("local-clubhouse", localClubhouse.name,
                           "clubhouse", NullHole, localClubhouse.coords,
                           localClubhouse.radiusMeters, "check_in"))
                ELSE None
  ELSE None

\* Math.floor((teeTime.getTime() - now.getTime()) / (1000 * 60))
MinutesUntilTeeTime(teeTimeMs, nowMs) == (teeTimeMs - nowMs) \div MsPerMinute

\* mutant: the alert window is off by one at both ends
InAlertWindow_OffByOne(m) == m <= TEE_TIME_ALERT_MINUTES + 1 /\ m >= 0

\* the alert window: minutesUntilTeeTime <= TEE_TIME_ALERT_MINUTES && > 0
InAlertWindow(m) == m <= TEE_TIME_ALERT_MINUTES /\ m > 0

\* Logic B gate: settings.tee_time_alerts && teeTime
TeeAlertGate(p) == p.settings.tee_time_alerts /\ p.teeTime # <<>>

\* Logic B: Tee Time Alert at Practice Range; t is the clock read by new Date()
LogicB(p, t) ==
  IF TeeAlertGate(p)
  THEN LET minutesUntilTeeTime == MinutesUntilTeeTime(p.teeTime[1], t)
           T(z) == z.zone_type = "range"
           i == FindIndex(p.zones, T)
           N(g) == g.name = "Practice Range"
           k == FindIndex(FOX_CREEK_DATA.geofences, N)
       IN  IF InAlertWindow(minutesUntilTeeTime)
           THEN IF i # 0 /\ isWithinGeofence(p.userLat, p.userLng, p.zones[i])
                THEN TeeAlert(p.zones[i], minutesUntilTeeTime)
                ELSE IF UseLocalData(p.zones)
                        /\ isWithinLocalGeofence(p.userLat, p.userLng, "Practice Range")
                        /\ k # 0
                     THEN LET localRange == FOX_CREEK_DATA.geofences[k]
                          IN  TeeAlert(LocalZone("local-range", localRange.name,
                                "range", NullHole, localRange.coords,
                                localRange.radiusMeters, "tee_alert"),
                                minutesUntilTeeTime)
                     ELSE None
           ELSE None
  ELSE None

\* Logic C gate: settings.turn_prompt_enabled && !hasShownFnbPrompt
FnbGate(p) == p.settings.turn_prompt_enabled /\ ~p.hasShownFnbPrompt

\* mutant: the turn window opens one hole early
InTurnWindow_Early(currentHole) ==
  currentHole >= TURN_HOLE - 2 /\ currentHole <= TURN_HOLE

\* mutant: the turn window is the turn hole alone
InTurnWindow_TurnHoleOnly(currentHole) == currentHole = TURN_HOLE

\* currentHole >= TURN_HOLE - 1 && currentHole <= TURN_HOLE
InTurnWindow(currentHole) ==
  currentHole >= TURN_HOLE - 1 /\ currentHole <= TURN_HOLE

\* Logic C: The Turn - F&B Prompt at Hole 8 Green
LogicC(p) ==
  IF FnbGate(p) /\ InTurnWindow(p.currentHole)
  THEN LET T(z) == z.zone_type = "hole_green" /\ z.hole_number = TURN_HOLE
           i == FindIndex(p.zones, T)
           h == getHoleByNumber(TURN_HOLE)
       IN  IF i # 0 /\ isWithinGeofence(p.userLat, p.userLng, p.zones[i])
           THEN FnbPrompt(p.zones[i], TURN_HOLE)
           ELSE IF UseLocalData(p.zones)
                   /\ isNearGreen(p.userLat, p.userLng, TURN_HOLE, 30)
                   /\ h # 0
                THEN LET hole == FOX_CREEK_DATA.holeData[h]
                     IN  FnbPrompt(LocalZone("local-hole8-green", "Hole 8 Green",
                           "hole_green", TURN_HOLE, hole.greenCoords, 27,
                           "fnb_prompt"), TURN_HOLE)
                ELSE None
  ELSE None

\* mutant: no master kill switch
checkGeofence_NoKillSwitch(p, t) ==
  IF LogicD(p) # None THEN LogicD(p)
  ELSE IF LogicA(p) # None THEN LogicA(p)
  ELSE IF LogicB(p, t) # None THEN LogicB(p, t)
  ELSE IF LogicC(p) # None THEN LogicC(p)
  ELSE None

\* mutant: the tee-time alert is tried before auto-start and check-in
checkGeofence_TeeAlertFirst(p, t) ==
  IF ~p.settings.enabled THEN None
  ELSE IF LogicB(p, t) # None THEN LogicB(p, t)
  ELSE IF LogicD(p) # None THEN LogicD(p)
  ELSE IF LogicA(p) # None THEN LogicA(p)
  ELSE IF LogicC(p) # None THEN LogicC(p)
  ELSE None

\* checkGeofence(params), with t the value of new Date() during the call
checkGeofence(p, t) ==
  IF ~p.settings.enabled THEN None
  ELSE IF LogicD(p) # None THEN LogicD(p)
  ELSE IF LogicA(p) # None THEN LogicA(p)
  ELSE IF LogicB(p, t) # None THEN LogicB(p, t)
  ELSE IF LogicC(p) # None THEN LogicC(p)
  ELSE None

---------------------------------------------------------------------------
(* Handicap calculator (src/src/lib/handicap.ts).                          *)
(*                                                                         *)
(* Numbers that carry one decimal (differentials, course ratings,          *)
(* handicap indexes) are integers in tenths: 10.3 is 103.  null is the     *)
(* empty sequence and a value v is <<v>>, as for teeTime.                  *)
(*                                                                         *)
(* The code computes in IEEE-754 doubles.  Math.round(x * 10) is modelled  *)
(* as the exact floor(10 x + 1/2) plus the deviation of the double         *)
(* evaluation from it, tabulated over the inputs of the model (the         *)
(* *RoundsLow sets: inputs whose exact value is a tie k + 0.5 and whose    *)
(* double value falls just below it, so that the code rounds down).        *)

\* the hole scores of a card range over null and 1..MaxStrokes
MaxStrokes == 9

\* a card holds the first MaxCardHoles holes of the course
MaxCardHoles == 3

\* calculateHandicapIndex receives at most MaxRounds differentials
MaxRounds == 22

\* adjusted gross scores range over MinAdjusted..MaxAdjusted
MinAdjusted == 50
MaxAdjusted == 110

\* handicap indexes passed to calculateCourseHandicap: 0.0, 0.1, ..
\* up to MaxIndexTenths / 10
MaxIndexTenths == 120

MAX_HANDICAP_INDEX == 540

\* the slope rating of a course of standard difficulty
STANDARD_SLOPE == 113

MathMax(a, b) == IF a >= b THEN a ELSE b

MathMin(a, b) == IF a <= b THEN a ELSE b

\* Math.floor((2 n + d) / (2 d)) for d > 0: n / d rounded to the nearest
\* integer, ties towards +Infinity, which is what Math.round does
RoundHalfUp(n, d) == (2 * n + d) \div (2 * d)

\* JavaScript's %: the remainder keeps the sign of the dividend
JsRemainder(a, b) == IF a >= 0 THEN a % b ELSE -((-a) % b)

RECURSIVE SumSeq(_)
SumSeq(s) == IF s = <<>> THEN 0 ELSE Head(s) + SumSeq(Tail(s))

\* [...differentials].sort((a, b) => a - b)
RECURSIVE sortAscending(_)
sortAscending(s) ==
  IF s = <<>> THEN <<>>
  ELSE LET i == CHOOSE k \in 1..Len(s) : \A j \in 1..Len(s) : s[k] <= s[j]
       IN  <<s[i]>> \o sortAscending(SubSeq(s, 1, i - 1) \o SubSeq(s, i + 1, Len(s)))

\* the WHS selection table: how many of the lowest differentials are
\* averaged, and the adjustment (in tenths) added to the average
DIFFERENTIAL_SELECTION ==
  [n \in 3..20 |->
     CASE n = 3 -> [count |-> 1, adjustment |-> -20]
       [] n = 4 -> [count |-> 1, adjustment |-> -10]
       [] n = 5 -> [count |-> 1, adjustment |-> 0]
       [] n = 6 -> [count |-> 2, adjustment |-> -10]
       [] n \in 7..8 -> [count |-> 2, adjustment |-> 0]
       [] n \in 9..11 -> [count |-> 3, adjustment |-> 0]
       [] n \in 12..14 -> [count |-> 4, adjustment |-> 0]
       [] n \in 15..16 -> [count |-> 5, adjustment |-> 0]
       [] n \in 17..18 -> [count |-> 6, adjustment |-> 0]
       [] n = 19 -> [count |-> 7, adjustment |-> 0]
       [] OTHER -> [count |-> 8, adjustment |-> 0] ]

\* <<bestDifferentials, adjustment>> for which the double evaluation of
\* Math.round((average + adjustment) * 10) is one below the exact value
IndexRoundsLow ==
  { <<<<1, 46>>, -10>>, <<<<1, 46>>, 0>>, <<<<46, 87>>, -10>>,
    <<<<82, 91>>, -10>>, <<<<82, 91>>, 0>>,
    <<<<91, 102>>, -10>>, <<<<91, 102>>, 0>>,
    <<<<55, 76, 82, 91, 102, 125, 126, 163>>, 0>>,
    <<<<77, 92, 95, 117, 123, 132, 136, 200>>, 0>> }

\* Math.round((average + selection.adjustment) * 10), in tenths
roundIndexTenths(bestDifferentials, selection) ==
  RoundHalfUp(SumSeq(bestDifferentials) + selection.count * selection.adjustment,
              selection.count)
  - (IF <<bestDifferentials, selection.adjustment>> \in IndexRoundsLow
     THEN 1 ELSE 0)

calculateHandicapIndex(differentials) ==
  LET count == Len(differentials)
  IN  IF count < 3 THEN <<>>
      ELSE LET sorted == sortAscending(differentials)
               roundsToUse == MathMin(count, 20)
               selection == DIFFERENTIAL_SELECTION[roundsToUse]
               bestDifferentials == SubSeq(sorted, 1, selection.count)
               handicapIndex == roundIndexTenths(bestDifferentials, selection)
           IN  << MathMax(0, MathMin(MAX_HANDICAP_INDEX, handicapIndex)) >>

\* a finite number, in tenths, or one of the non-finite doubles
Number(tenths) == [kind |-> "number", tenths |-> tenths]
PlusInfinity == [kind |-> "Infinity"]
MinusInfinity == [kind |-> "-Infinity"]
NaN == [kind |-> "NaN"]

\* <<adjustedScore, courseRating, slopeRating>> for which the double
\* evaluation of Math.round(differential * 10) is one below the exact value
DifferentialRoundsLow ==
  { <<51, 684, 116>>, <<55, 754, 136>>, <<77, 720, 100>>, <<97, 720, 100>>,
    <<117, 720, 100>>, <<127, 720, 100>>, <<137, 720, 100>>, <<147, 720, 100>> }

\* calculateDifferential: the code divides by slopeRating unguarded
calculateDifferential(adjustedScore, courseRating, slopeRating) ==
  LET excess == 10 * adjustedScore - courseRating
      low == IF <<adjustedScore, courseRating, slopeRating>> \in DifferentialRoundsLow
             THEN 1 ELSE 0
  IN  IF slopeRating = 0
      THEN \* 113 / 0 is Infinity; Infinity * 0 is NaN
           IF excess > 0 THEN PlusInfinity
           ELSE IF excess < 0 THEN MinusInfinity
           ELSE NaN
      ELSE IF slopeRating > 0
      THEN Number(RoundHalfUp(STANDARD_SLOPE * excess, slopeRating) - low)
      ELSE Number(RoundHalfUp(-STANDARD_SLOPE * excess, -slopeRating) - low)

\* <<handicapIndex, slopeRating, courseRating, par>> for which the double
\* evaluation of Math.round(courseHandicap) is one below the exact value
CourseHandicapRoundsLow ==
  { <<113, 127, 698, 72>>, <<226, 112, 641, 72>> }

\* calculateCourseHandicap: handicapIndex * (slopeRating / 113)
\* + (courseRating - par), rounded to an integer
calculateCourseHandicap(handicapIndex, slopeRating, courseRating, par) ==
  RoundHalfUp(handicapIndex * slopeRating
                + STANDARD_SLOPE * (courseRating - 10 * par),
              10 * STANDARD_SLOPE)
  - (IF <<handicapIndex, slopeRating, courseRating, par>> \in CourseHandicapRoundsLow
     THEN 1 ELSE 0)

\* the strokes a player receives on a hole
strokesReceived(courseHandicap, holeHandicapIndex) ==
  (courseHandicap \div 18)
  + (IF holeHandicapIndex <= JsRemainder(courseHandicap, 18) THEN 1 ELSE 0)

getMaxScoreForHole(par, courseHandicap, holeHandicapIndex) ==
  par + 2 + strokesReceived(courseHandicap, holeHandicapIndex)

\* mutant: the score is counted without the cap of par + 2
addSimpleAdjusted_NoCap(adjustedTotal, holeScore) ==
  IF holeScore.score = <<>> THEN adjustedTotal
  ELSE adjustedTotal + holeScore.score[1]

\* one iteration of calculateSimpleAdjustedScore's loop
addSimpleAdjusted(adjustedTotal, holeScore) ==
  IF holeScore.score = <<>> THEN adjustedTotal
  ELSE LET maxScore == holeScore.par + 2
       IN  adjustedTotal + MathMin(holeScore.score[1], maxScore)

RECURSIVE simpleAdjustedFrom(_, _)
simpleAdjustedFrom(adjustedTotal, scores) ==
  IF scores = <<>> THEN adjustedTotal
  ELSE simpleAdjustedFrom(addSimpleAdjusted(adjustedTotal, Head(scores)),
                          Tail(scores))

calculateSimpleAdjustedScore(scores) == simpleAdjustedFrom(0, scores)

\* getTeeRating: the index in teeRatings, 0 for undefined
getTeeRating(teeName) ==
  LET I == {i \in 1..Len(FOX_CREEK_DATA.teeRatings) :
              FOX_CREEK_DATA.teeRatings[i].name = teeName}
  IN  IF I = {} THEN 0 ELSE CHOOSE i \in I : \A j \in I : i <= j

\* getFoxCreekRatings: null (<<>>) for an unknown tee
getFoxCreekRatings(teeName, gender) ==
  LET tee == getTeeRating(teeName)
  IN  IF tee = 0 THEN <<>>
      ELSE LET t == FOX_CREEK_DATA.teeRatings[tee]
           IN  << [ courseRating |-> IF gender = "mens" THEN t.mensRating
                                     ELSE t.womensRating,
                    slopeRating |-> IF gender = "mens" THEN t.mensSlope
                                    ELSE t.womensSlope ] >>

\* getFoxCreekHoleData
getFoxCreekHoleData ==
  [i \in 1..Len(FOX_CREEK_DATA.holeData) |->
     [ hole |-> FOX_CREEK_DATA.holeData[i].holeNumber,
       par |-> FOX_CREEK_DATA.holeData[i].par,
       handicapIndex |-> FOX_CREEK_DATA.holeData[i].handicapIndex ]]

---------------------------------------------------------------------------
(* The useGeofencing hook (src/unnamed/part_001) over the scorecard store  *)
(* (src/unnamed/part_002) and the tee-time store                           *)
(* (src/src/lib/tee-time-alert-store.ts).                                  *)
(*                                                                         *)
(* One instance of the hook is mounted.  processLocation is a closure: the *)
(* callback given to watchPositionAsync keeps the teeTime, isCheckedIn,    *)
(* isRoundInProgress and currentHole of the render in which startTracking  *)
(* was called, while the two refs are read when the callback runs.         *)
(*                                                                         *)
(* isCheckedIn, setCheckedIn, showFnbPrompt, setShowFnbPrompt and          *)
(* autoStartRound are used by the hook but are not in the store's source;  *)
(* they are modelled from the documentation.                               *)

\* the history counters stop counting at MaxCount
MaxCount == 2

\* the zones and the settings the queries of the hook return
HookZones == << ZClubhouse, ZHole1Tee, ZHole8Green, ZRange >>
HookSettings ==
  [ enabled |-> TRUE, check_in_enabled |-> TRUE, tee_time_alerts |-> TRUE,
    turn_prompt_enabled |-> TRUE ]

\* the tee times a player sets: inside the alert window, and after it
HookTeeTimes ==
  { <<(TEE_TIME_ALERT_MINUTES - 1) * MsPerMinute>>,
    <<(TEE_TIME_ALERT_MINUTES + 1) * MsPerMinute>> }

\* the holes setCurrentHole moves to
HookHoles == {1, TURN_HOLE, TURN_HOLE + 1}

\* both stores as created
InitialStore ==
  [ teeTime |-> <<>>, hasAlerted |-> FALSE, isAlertVisible |-> FALSE,
    isCheckedIn |-> FALSE, isTracking |-> FALSE, currentHole |-> 1,
    showFnbPrompt |-> FALSE ]

\* what a render of the hook gives processLocation
Closure(s) ==
  [ teeTime |-> s.teeTime, isCheckedIn |-> s.isCheckedIn,
    isRoundInProgress |-> s.isTracking, currentHole |-> s.currentHole ]

\* the hook after its first render and its effects
InitialHook ==
  [ location |-> <<>>, currentTrigger |-> None, subscribed |-> FALSE,
    hasTriggeredTeeAlert |-> FALSE, hasTriggeredFnbPrompt |-> FALSE,
    closure |-> Closure(InitialStore) ]

\* history: tee-alert actions performed and tee_alert triggers returned since
\* the tee time was last set, tee-alert actions performed in all, and
\* setShowFnbPrompt(true) calls since the round in progress (or the last
\* round) started
InitialHist ==
  [ teeAlertsSinceChange |-> 0, teeAlertTriggersSinceChange |-> 0,
    teeAlertsTotal |-> 0, fnbRaisedThisRound |-> 0 ]

Count(c) == IF c < MaxCount THEN c + 1 ELSE c

\* the tee-alert case of processLocation's switch
teeAlertArmed(h) == ~h.hasTriggeredTeeAlert

\* mutant: the ref is left unset
markTeeAlertTriggered_Forgets(h) == h

markTeeAlertTriggered(h) == [h EXCEPT !.hasTriggeredTeeAlert = TRUE]

\* triggerAlert of the tee-time store
triggerAlert(s) == [s EXCEPT !.hasAlerted = TRUE, !.isAlertVisible = TRUE]

\* the fnb_prompt case of processLocation's switch
fnbPromptArmed(h) == ~h.hasTriggeredFnbPrompt

\* mutant: the ref is left unset
markFnbPromptTriggered_Forgets(h) == h

markFnbPromptTriggered(h) == [h EXCEPT !.hasTriggeredFnbPrompt = TRUE]

setShowFnbPrompt(s, show) == [s EXCEPT !.showFnbPrompt = show]

setCheckedIn(s, checkedIn) == [s EXCEPT !.isCheckedIn = checkedIn]

\* autoStartRound: starts round tracking and sets currentHole to 1
autoStartRound(s) == [s EXCEPT !.isTracking = TRUE, !.currentHole = 1]

\* a round starts when isTracking becomes true
RoundStarts(s, t) == ~s.isTracking /\ t.isTracking

startRoundHistory(h, s, t) ==
  IF RoundStarts(s, t) THEN [h EXCEPT !.fnbRaisedThisRound = 0] ELSE h

\* the parameters processLocation passes to checkGeofence
processLocationParams(h, coords) ==
  [ userLat |-> coords.lat, userLng |-> coords.lng,
    teeTime |-> h.closure.teeTime, isCheckedIn |-> h.closure.isCheckedIn,
    isRoundInProgress |-> h.closure.isRoundInProgress,
    currentHole |-> h.closure.currentHole,
    hasShownFnbPrompt |-> h.hasTriggeredFnbPrompt,
    zones |-> HookZones, settings |-> HookSettings ]


---------------------------------------------------------------------------
(* The components below are at rest while another component runs *)

\* useGeofencing's subscription state before startTracking is called
IdleTracker == [ pc |-> "idle" ]

\* the tee-time alert store before the app is launched
IdleTee == [ load |-> "off" ]

\* the scorecard store before the scorecard screen is opened
IdleCard == [ screen |-> "closed" ]

\* the round history before a round is saved or deleted
IdleRounds == [ roundHistory |-> <<>> ]

\* no distance is being converted
IdleUnits == [ pc |-> "idle" ]

\* the settings hook before it is mounted
IdleAppSettings == [ cache |-> <<>> ]

\* the loyalty tables while no transaction is added
IdleLoyalty == [ loyalty_points |-> 0 ]

\* the challenge row while no score is submitted
IdleChallenge == [ status |-> "accepted" ]

---------------------------------------------------------------------------
(* The engine under every input: the parameters of one evaluation are drawn *)
(* at the start, the clock advances, and checkGeofence is called.           *)

Settings == [ enabled : BOOLEAN, check_in_enabled : BOOLEAN,
              tee_time_alerts : BOOLEAN, turn_prompt_enabled : BOOLEAN ]

\* tee times: none (<<>>), or a Date: 1 minute, 5 minutes 1 second and
\* 6 minutes after the start of the clock
TeeTimes == { <<>>, <<MsPerMinute>>,
              <<TEE_TIME_ALERT_MINUTES * MsPerMinute + TickMs>>,
              <<(TEE_TIME_ALERT_MINUTES + 1) * MsPerMinute>> }

Params ==
  { [ userLat |-> pos.lat, userLng |-> pos.lng, teeTime |-> tt,
      isCheckedIn |-> ci, isRoundInProgress |-> rip, currentHole |-> h,
      hasShownFnbPrompt |-> shown, zones |-> zs, settings |-> st ] :
      pos \in Positions, tt \in TeeTimes, ci \in BOOLEAN, rip \in BOOLEAN,
      h \in MinHole..MaxHole, shown \in BOOLEAN, zs \in ZoneLists,
      st \in Settings }

NotCalled == [type |-> "not_called"]

\* no function of the calculator has been called
NoCall == [fn |-> "none"]

InitGeo ==
  /\ params \in Params
  /\ now = 0
  /\ trigger = NotCalled
  /\ calledAt = 0
  /\ call = NoCall
  /\ store = InitialStore /\ hook = InitialHook /\ hist = InitialHist
  /\ tracker = IdleTracker
  /\ teeAlert = IdleTee
  /\ card = IdleCard
  /\ rounds = IdleRounds
  /\ units = IdleUnits
  /\ appSettings = IdleAppSettings
  /\ loyalty = IdleLoyalty
  /\ challenge = IdleChallenge

\* time passes
Tick ==
  /\ now < MaxTicks * TickMs
  /\ now' = now + TickMs
  /\ UNCHANGED <<params, trigger, calledAt, call, store, hook, hist, ext>>

\* one evaluation of the engine (processLocation's call)
CallCheckGeofence ==
  /\ trigger' = checkGeofence(params, now)
  /\ calledAt' = now
  /\ UNCHANGED <<params, now, call, store, hook, hist, ext>>

NextGeo == Tick \/ CallCheckGeofence

SpecGeo == InitGeo /\ [][NextGeo]_vars

---------------------------------------------------------------------------
(* The calculator under its inputs: a call of an exported function is     *)
(* drawn at the start, and the action of the function returns its result.  *)

TeeNames == {"Black", "Blue", "White", "Green", "Red"}
Genders == {"mens", "womens"}

\* ratings of other courses: standard difficulty, an easier course, and
\* slope ratings that are not positive
OtherRatings ==
  { [courseRating |-> 720, slopeRating |-> STANDARD_SLOPE],
    [courseRating |-> 720, slopeRating |-> 100],
    [courseRating |-> 720, slopeRating |-> 0],
    [courseRating |-> 720, slopeRating |-> -STANDARD_SLOPE] }

Ratings ==
  { getFoxCreekRatings(t, g)[1] : t \in TeeNames, g \in Genders } \cup OtherRatings

\* score histories, most recent first, in tenths
HistoryA ==
  << 50, 60, 70, 1, 46, 124, 98, 151, 110, 87, 133, 105,
     142, 79, 160, 91, 128, 64, 100, 117, 10, 130, 80, 90 >>
HistoryB ==
  << 55, 76, 82, 91, 102, 125, 126, 163, 300, 300, 300, 300,
     300, 300, 300, 300, 300, 300, 300, 300, 10, 300, 300, 300 >>
HistoryC ==
  << 68, 75, 77, 92, 117, 123, 132, 136, 200, 200, 200, 200,
     200, 200, 200, 200, 200, 200, 200, 200, 200, 95, 200, 200 >>
HistoryD == [i \in 1..24 |-> 600]
HistoryE ==
  << 5, 10, 3, 8, 12, 2, 15, 7, 9, 4, 11, 6,
     14, 1, 13, 5, 10, 3, 8, 12, 2, 15, 7, 9 >>
Histories == {HistoryA, HistoryB, HistoryC, HistoryD, HistoryE}

\* the differentials passed to calculateHandicapIndex: every run of at most
\* MaxRounds consecutive rounds of a history
DifferentialLists ==
  { SubSeq(h, i, i + n - 1) :
      <<h, i, n>> \in { <<h, i, n>> \in Histories \X (1..24) \X (0..MaxRounds) :
                          i + n - 1 <= Len(h) } }

\* the cards passed to calculateSimpleAdjustedScore: the first holes of the
\* course, each with no score or a score of 1..MaxStrokes
ScoreEntries == {<<>>} \cup { <<s>> : s \in 1..MaxStrokes }
Cards ==
  { [i \in 1..MaxCardHoles |->
       [ hole |-> getFoxCreekHoleData[i].hole,
         par |-> getFoxCreekHoleData[i].par,
         score |-> e[i] ]] :
      e \in [1..MaxCardHoles -> ScoreEntries] }

IdleParams ==
  [ userLat |-> 0, userLng |-> 0, teeTime |-> <<>>, isCheckedIn |-> FALSE,
    isRoundInProgress |-> FALSE, currentHole |-> 1,
    hasShownFnbPrompt |-> FALSE, zones |-> <<>>,
    settings |-> [ enabled |-> FALSE, check_in_enabled |-> FALSE,
                   tee_time_alerts |-> FALSE, turn_prompt_enabled |-> FALSE ] ]

\* the calls the calculator receives, before they return
HandicapCalls ==
  { [ fn |-> "calculateHandicapIndex", returned |-> FALSE, differentials |-> d ] :
      d \in DifferentialLists }
  \cup
  { [ fn |-> "calculateDifferential", returned |-> FALSE, adjustedScore |-> a,
      courseRating |-> r.courseRating, slopeRating |-> r.slopeRating ] :
      a \in MinAdjusted..MaxAdjusted, r \in Ratings }
  \cup
  { [ fn |-> "calculateSimpleAdjustedScore", returned |-> FALSE, scores |-> c ] :
      c \in Cards }
  \cup
  { [ fn |-> "calculateCourseHandicap", returned |-> FALSE, handicapIndex |-> hi,
      slopeRating |-> getFoxCreekRatings(t, g)[1].slopeRating,
      courseRating |-> getFoxCreekRatings(t, g)[1].courseRating,
      par |-> FOX_CREEK_DATA.par ] :
      hi \in 0..MaxIndexTenths, t \in TeeNames, g \in Genders }

\* a call with its result
Return(c, result) == [c EXCEPT !.returned = TRUE] @@ [result |-> result]

InitHandicap ==
  /\ call \in HandicapCalls
  /\ store = InitialStore /\ hook = InitialHook /\ hist = InitialHist
  /\ tracker = IdleTracker
  /\ teeAlert = IdleTee
  /\ card = IdleCard
  /\ rounds = IdleRounds
  /\ units = IdleUnits
  /\ appSettings = IdleAppSettings
  /\ loyalty = IdleLoyalty
  /\ challenge = IdleChallenge
  /\ params = IdleParams
  /\ now = 0
  /\ trigger = NotCalled
  /\ calledAt = 0

CallCalculateHandicapIndex ==
  /\ call.fn = "calculateHandicapIndex" /\ ~call.returned
  /\ call' = Return(call, calculateHandicapIndex(call.differentials))
  /\ UNCHANGED <<params, now, trigger, calledAt, store, hook, hist, ext>>

CallCalculateDifferential ==
  /\ call.fn = "calculateDifferential" /\ ~call.returned
  /\ call' = Return(call, calculateDifferential(call.adjustedScore,
                                                call.courseRating,
                                                call.slopeRating))
  /\ UNCHANGED <<params, now, trigger, calledAt, store, hook, hist, ext>>

CallCalculateSimpleAdjustedScore ==
  /\ call.fn = "calculateSimpleAdjustedScore" /\ ~call.returned
  /\ call' = Return(call, calculateSimpleAdjustedScore(call.scores))
  /\ UNCHANGED <<params, now, trigger, calledAt, store, hook, hist, ext>>

CallCalculateCourseHandicap ==
  /\ call.fn = "calculateCourseHandicap" /\ ~call.returned
  /\ call' = Return(call, calculateCourseHandicap(call.handicapIndex,
                                                  call.slopeRating,
                                                  call.courseRating, call.par))
  /\ UNCHANGED <<params, now, trigger, calledAt, store, hook, hist, ext>>

\* calculateAdjustedScore's calls of getMaxScoreForHole, one for each hole of
\* getFoxCreekHoleData, with the course handicap that calculateCourseHandicap
\* returned
CallGetMaxScoreForHole ==
  /\ call.fn = "calculateCourseHandicap" /\ call.returned
  /\ call' = [ fn |-> "getMaxScoreForHole", returned |-> TRUE,
               courseHandicap |-> call.result,
               result |-> [i \in 1..Len(FOX_CREEK_DATA.holeData) |->
                             getMaxScoreForHole(getFoxCreekHoleData[i].par,
                                                call.result,
                                                getFoxCreekHoleData[i].handicapIndex)] ]
  /\ UNCHANGED <<params, now, trigger, calledAt, store, hook, hist, ext>>

NextHandicap ==
  \/ CallCalculateHandicapIndex
  \/ CallCalculateDifferential
  \/ CallCalculateSimpleAdjustedScore
  \/ CallCalculateCourseHandicap
  \/ CallGetMaxScoreForHole

SpecHandicap == InitHandicap /\ [][NextHandicap]_vars

---------------------------------------------------------------------------
(* The hook under location updates and the actions of the player *)

InitHook ==
  /\ store = InitialStore
  /\ hook = InitialHook
  /\ hist = InitialHist
  /\ params = IdleParams
  /\ now = 0
  /\ trigger = NotCalled
  /\ calledAt = 0
  /\ call = NoCall
  /\ tracker = IdleTracker
  /\ teeAlert = IdleTee
  /\ card = IdleCard
  /\ rounds = IdleRounds
  /\ units = IdleUnits
  /\ appSettings = IdleAppSettings
  /\ loyalty = IdleLoyalty
  /\ challenge = IdleChallenge

\* startTracking of the hook: subscribes the processLocation of the current
\* render (settings enabled, permission granted)
HookStartTracking ==
  /\ HookSettings.enabled
  /\ hook' = [hook EXCEPT !.subscribed = TRUE, !.closure = Closure(store)]
  /\ UNCHANGED <<store, hist, params, now, trigger, calledAt, call, ext>>

\* stopTracking of the hook
HookStopTracking ==
  /\ hook.subscribed
  /\ hook' = [hook EXCEPT !.subscribed = FALSE]
  /\ UNCHANGED <<store, hist, params, now, trigger, calledAt, call, ext>>

\* a location update: the whole of processLocation
LocationUpdate ==
  /\ hook.subscribed
  /\ \E coords \in Positions :
       LET t == checkGeofence(processLocationParams(hook, coords), now)
           seen == [hook EXCEPT !.location = <<coords>>, !.currentTrigger = t]
       IN  CASE t.type = "check_in" ->
                  /\ store' = IF ~hook.closure.isCheckedIn
                              THEN setCheckedIn(store, TRUE) ELSE store
                  /\ hook' = seen
                  /\ hist' = hist
             [] t.type = "auto_start" ->
                  /\ store' = IF ~hook.closure.isRoundInProgress
                              THEN autoStartRound(store) ELSE store
                  /\ hook' = seen
                  /\ hist' = startRoundHistory(hist, store, store')
             [] t.type = "tee_alert" ->
                  LET counted == [hist EXCEPT !.teeAlertTriggersSinceChange = Count(@)]
                  IN  IF teeAlertArmed(hook)
                      THEN /\ hook' = markTeeAlertTriggered(seen)
                           /\ store' = triggerAlert(store)
                           /\ hist' = [counted EXCEPT
                                         !.teeAlertsSinceChange = Count(@),
                                         !.teeAlertsTotal = Count(@)]
                      ELSE /\ hook' = seen
                           /\ store' = store
                           /\ hist' = counted
             [] t.type = "fnb_prompt" ->
                  IF fnbPromptArmed(hook)
                  THEN /\ hook' = markFnbPromptTriggered(seen)
                       /\ store' = setShowFnbPrompt(store, TRUE)
                       /\ hist' = [hist EXCEPT !.fnbRaisedThisRound = Count(@)]
                  ELSE /\ hook' = seen
                       /\ UNCHANGED <<store, hist>>
             [] OTHER ->
                  /\ hook' = seen
                  /\ UNCHANGED <<store, hist>>
  /\ UNCHANGED <<params, now, trigger, calledAt, call, ext>>

\* setTeeTime with a Date: the store holds a new object, and the effect on
\* [teeTime] of the following render resets the tee-alert ref
SetTeeTime ==
  /\ \E time \in HookTeeTimes :
       store' = [store EXCEPT !.teeTime = time, !.hasAlerted = FALSE]
  /\ hook' = [hook EXCEPT !.hasTriggeredTeeAlert = FALSE]
  /\ hist' = [hist EXCEPT !.teeAlertsSinceChange = 0,
                          !.teeAlertTriggersSinceChange = 0]
  /\ UNCHANGED <<params, now, trigger, calledAt, call, ext>>

\* clearTeeTime: the effect runs when teeTime was not null already
ClearTeeTime ==
  /\ store' = [store EXCEPT !.teeTime = <<>>, !.hasAlerted = FALSE,
                            !.isAlertVisible = FALSE]
  /\ IF store.teeTime # <<>>
     THEN /\ hook' = [hook EXCEPT !.hasTriggeredTeeAlert = FALSE]
          /\ hist' = [hist EXCEPT !.teeAlertsSinceChange = 0,
                                  !.teeAlertTriggersSinceChange = 0]
     ELSE UNCHANGED <<hook, hist>>
  /\ UNCHANGED <<params, now, trigger, calledAt, call, ext>>

\* startTracking of the scorecard store
StoreStartTracking ==
  /\ store' = [store EXCEPT !.isTracking = TRUE]
  /\ hist' = startRoundHistory(hist, store, store')
  /\ UNCHANGED <<hook, params, now, trigger, calledAt, call, ext>>

\* finishRound of the scorecard store
FinishRound ==
  /\ store.isTracking
  /\ store' = [store EXCEPT !.isTracking = FALSE]
  /\ UNCHANGED <<hook, hist, params, now, trigger, calledAt, call, ext>>

\* setCurrentHole of the scorecard store
SetCurrentHole ==
  /\ \E hole \in HookHoles : store' = [store EXCEPT !.currentHole = hole]
  /\ UNCHANGED <<hook, hist, params, now, trigger, calledAt, call, ext>>

\* the player answers the F&B prompt: setShowFnbPrompt(false)
DismissFnbPrompt ==
  /\ store.showFnbPrompt
  /\ store' = setShowFnbPrompt(store, FALSE)
  /\ UNCHANGED <<hook, hist, params, now, trigger, calledAt, call, ext>>

NextHook ==
  \/ HookStartTracking
  \/ HookStopTracking
  \/ LocationUpdate
  \/ SetTeeTime
  \/ ClearTeeTime
  \/ StoreStartTracking
  \/ FinishRound
  \/ SetCurrentHole
  \/ DismissFnbPrompt

SpecHook == InitHook /\ [][NextHook]_vars



---------------------------------------------------------------------------
(* Conditions of the triggers, stated on the inputs *)

Called == trigger # NotCalled

Min(S) == CHOOSE i \in S : \A j \in S : i <= j

\* the position of p is inside the circle of zone z
Inside(p, z) ==
  HaversineCm[<<Coord(p.userLat, p.userLng), Coord(z.latitude, z.longitude)>>]
    <= 100 * z.radius_meters

\* the position of p is within r metres of the coordinate c
Near(p, c, r) == HaversineCm[<<Coord(p.userLat, p.userLng), c>>] <= 100 * r

ZonesOfType(p, type) == {i \in 1..Len(p.zones) : p.zones[i].zone_type = type}

ZonesOfHole(p, type, hole) ==
  {i \in ZonesOfType(p, type) : p.zones[i].hole_number = hole}

\* the first zone among the indexes S exists and contains the position
InsideFirst(p, S) == S # {} /\ Inside(p, p.zones[Min(S)])

InsideHole1Tee(p) == InsideFirst(p, ZonesOfHole(p, "hole_tee", 1))
InsideClubhouse(p) == InsideFirst(p, ZonesOfType(p, "clubhouse"))
InsideRange(p) == InsideFirst(p, ZonesOfType(p, "range"))
InsideHole8Green(p) == InsideFirst(p, ZonesOfHole(p, "hole_green", 8))

\* whole minutes from the call to the tee time
MinutesAt(p, t) == (p.teeTime[1] - t) \div 60000

AutoStartCond(p) == p.isCheckedIn /\ ~p.isRoundInProgress /\ InsideHole1Tee(p)

CheckInCond(p) ==
  /\ p.settings.check_in_enabled /\ ~p.isCheckedIn
  /\ \/ InsideClubhouse(p)
     \/ p.zones = <<>> /\ Near(p, Coord(46083000, -64683000), 50)

TeeAlertCond(p, t) ==
  /\ p.settings.tee_time_alerts /\ p.teeTime # <<>>
  /\ MinutesAt(p, t) \in 1..5
  /\ \/ InsideRange(p)
     \/ p.zones = <<>> /\ Near(p, Coord(46084000, -64682000), 100)

\* the built-in green of hole 8 is the (0,0) placeholder: no fallback matches
FnbPromptCond(p) ==
  /\ p.settings.turn_prompt_enabled /\ ~p.hasShownFnbPrompt
  /\ p.currentHole \in {7, 8}
  /\ InsideHole8Green(p)

ExpectedType(p, t) ==
  IF AutoStartCond(p) THEN "auto_start"
  ELSE IF CheckInCond(p) THEN "check_in"
  ELSE IF TeeAlertCond(p, t) THEN "tee_alert"
  ELSE IF FnbPromptCond(p) THEN "fnb_prompt"
  ELSE "none"

HasZone == trigger.type \in {"auto_start", "check_in", "tee_alert", "fnb_prompt"}

---------------------------------------------------------------------------
(* Claims *)

\* C1: whenever settings.enabled is false, checkGeofence returns 'none',
\* whatever the other inputs are.
C1_MasterSwitchOff ==
  (Called /\ ~params.settings.enabled) => trigger = None

\* C1 witness: a call with the master switch off for a player who stands in
\* the clubhouse zone with check-in enabled and is not checked in.
C1_Witness ==
  /\ Called /\ ~params.settings.enabled
  /\ params.settings.check_in_enabled /\ ~params.isCheckedIn
  /\ InsideClubhouse(params)
  /\ trigger = None

\* C2: with settings.enabled true, checkGeofence returns the first trigger
\* whose condition matches in the order auto_start, check_in, tee_alert,
\* fnb_prompt, and 'none' when none matches; a checked-in player with no
\* round in progress inside the hole-1 tee zone gets auto_start even when
\* also inside the clubhouse zone or the practice-range zone.
C2_FirstMatchWins ==
  (Called /\ params.settings.enabled) =>
    /\ trigger.type = ExpectedType(params, calledAt)
    /\ (params.isCheckedIn /\ ~params.isRoundInProgress /\ InsideHole1Tee(params))
         => trigger.type = "auto_start"

\* C2 witness: auto_start returned to a player who is also inside the range
\* zone during the tee-time alert window and inside the clubhouse zone.
C2_Witness ==
  /\ Called /\ params.settings.enabled
  /\ params.settings.tee_time_alerts /\ params.teeTime # <<>>
  /\ MinutesAt(params, calledAt) \in 1..5
  /\ InsideRange(params) /\ InsideHole1Tee(params)
  /\ Near(params, Coord(46083000, -64683000), 50)
  /\ trigger.type = "auto_start"

\* C3: tee_alert is returned only when tee_time_alerts is enabled, a tee time
\* is set and m = floor((teeTime - now) / 60 s) satisfies 0 < m <= 5, and
\* the minutesUntilTeeTime returned equals m (so never with m = 0 or m = 6).
C3_TeeAlertWindow ==
  (Called /\ trigger.type = "tee_alert") =>
    /\ params.settings.tee_time_alerts
    /\ params.teeTime # <<>>
    /\ MinutesAt(params, calledAt) > 0
    /\ MinutesAt(params, calledAt) <= 5
    /\ trigger.minutesUntilTeeTime = MinutesAt(params, calledAt)

\* C3 witness: a tee_alert at the upper end of the window, m = 5.
C3_Witness ==
  /\ Called /\ trigger.type = "tee_alert"
  /\ trigger.minutesUntilTeeTime = 5

\* C4: with the tee time exactly 5 minutes 1 second after the current time,
\* checkGeofence returns no tee_alert.
C4_NoAlertAt5m1s ==
  (Called /\ params.teeTime # <<>>
     /\ params.teeTime[1] - calledAt = 5 * 60000 + 1000)
    => trigger.type # "tee_alert"

\* C5: fnb_prompt is never returned when currentHole is outside {7, 8}.
C5_NoFnbOutsideWindow ==
  (Called /\ params.currentHole \notin {7, 8}) => trigger.type # "fnb_prompt"

\* C5 witness: hole 6, turn prompt enabled and not shown, the position inside
\* the hole-8 green zone, and no trigger.
C5_Witness ==
  /\ Called /\ params.currentHole = 6
  /\ params.settings.enabled /\ params.settings.turn_prompt_enabled
  /\ ~params.hasShownFnbPrompt
  /\ InsideHole8Green(params)
  /\ trigger = None

\* the case of C6 for the current holes H: master and turn prompt enabled,
\* prompt not shown, no higher-priority trigger matching, inside the remote
\* hole-8 green zone
FnbCase(H) ==
  /\ Called
  /\ params.settings.enabled /\ params.settings.turn_prompt_enabled
  /\ ~params.hasShownFnbPrompt
  /\ params.currentHole \in H
  /\ ~AutoStartCond(params) /\ ~CheckInCond(params)
  /\ ~TeeAlertCond(params, calledAt)
  /\ InsideHole8Green(params)

FnbResult ==
  trigger = FnbPrompt(params.zones[Min(ZonesOfHole(params, "hole_green", 8))], 8)

\* C6 as stated: in that case checkGeofence returns fnb_prompt with
\* holeNumber = 8 for each of the current holes 7, 8 and 9.
C6_FnbAtHoles789 == FnbCase({7, 8, 9}) => FnbResult

\* C6 amended: in that case checkGeofence returns fnb_prompt with
\* holeNumber = 8 for each of the current holes 7 and 8.
C6_FnbAtHoles78 == FnbCase({7, 8}) => FnbResult

\* C6 witness: the prompt returned on hole 7.
C6_Witness == FnbCase({7}) /\ FnbResult

\* C7: auto_start is returned only when isCheckedIn, no round is in progress
\* and the remote list holds a hole-1 tee zone containing the position; so
\* never with an empty remote list, and a player not checked in who stands
\* inside the hole-1 tee zone and the clubhouse zone gets check_in.
C7_AutoStartOnlyCheckedIn ==
  Called =>
    /\ trigger.type = "auto_start" =>
         /\ params.isCheckedIn /\ ~params.isRoundInProgress
         /\ params.zones # <<>>
         /\ \E i \in ZonesOfHole(params, "hole_tee", 1) :
               Inside(params, params.zones[i]) /\ trigger.zone = params.zones[i]
    /\ ( /\ params.settings.enabled /\ params.settings.check_in_enabled
          /\ ~params.isCheckedIn
          /\ InsideHole1Tee(params) /\ InsideClubhouse(params) )
         => trigger.type = "check_in"

\* C7 witness: check_in for a player not checked in, inside both zones.
C7_Witness ==
  /\ Called /\ ~params.isCheckedIn /\ ~params.isRoundInProgress
  /\ InsideHole1Tee(params) /\ InsideClubhouse(params)
  /\ trigger.type = "check_in"

LocalIds == {"local-clubhouse", "local-range", "local-hole8-green"}

\* C8: with a non-empty remote list the built-in data is not used: no trigger
\* carries a zone built from it, and a list without a clubhouse, range or
\* hole-8 green zone gives no check_in, tee_alert or fnb_prompt.
C8_FallbackOnlyWhenEmpty ==
  (Called /\ params.zones # <<>>) =>
    /\ HasZone => trigger.zone.id \notin LocalIds
    /\ ZonesOfType(params, "clubhouse") = {} => trigger.type # "check_in"
    /\ ZonesOfType(params, "range") = {} => trigger.type # "tee_alert"
    /\ ZonesOfHole(params, "hole_green", 8) = {} => trigger.type # "fnb_prompt"

\* C8 witness: a non-empty list without a clubhouse zone, the position inside
\* the built-in Clubhouse, check-in enabled, not checked in: no check_in.
C8_Witness ==
  /\ Called /\ params.zones # <<>>
  /\ ZonesOfType(params, "clubhouse") = {}
  /\ params.settings.enabled /\ params.settings.check_in_enabled
  /\ ~params.isCheckedIn
  /\ Near(params, Coord(46083000, -64683000), 50)
  /\ trigger.type # "check_in"

\* C9: no trigger carries a zone whose centre is (0,0), from the remote list
\* or from the built-in data.
C9_ZeroZoneNeverMatched ==
  (Called /\ HasZone) =>
    ~(trigger.zone.latitude = 0 /\ trigger.zone.longitude = 0)

\* C10: each per-feature toggle suppresses its own trigger.
C10_TogglesSuppress ==
  Called =>
    /\ ~params.settings.check_in_enabled => trigger.type # "check_in"
    /\ ~params.settings.tee_time_alerts => trigger.type # "tee_alert"
    /\ ~params.settings.turn_prompt_enabled => trigger.type # "fnb_prompt"

\* C10 witness: check-in disabled, master enabled, a player not checked in
\* inside the clubhouse zone: no check_in.
C10_Witness ==
  /\ Called /\ params.settings.enabled /\ ~params.settings.check_in_enabled
  /\ ~params.isCheckedIn /\ InsideClubhouse(params)
  /\ trigger.type # "check_in"

\* C11: checkGeofence reads only its explicit parameters: two calls with
\* equal parameters return equal triggers, whenever they are made.
C11_SameParamsSameTrigger ==
  [][(Called /\ params' = params /\ calledAt' # calledAt) => trigger' = trigger]_vars

---------------------------------------------------------------------------
(* Handicap calculator claims (SpecHandicap) *)

\* the mean of the k lowest values of d plus the adjustment adj, in tenths,
\* rounded half-up to one decimal and clamped to [0.0, 54.0]
WhsIndex(d, k, adj) ==
  LET lowest == SubSeq(sortAscending(d), 1, k)
      rounded == RoundHalfUp(SumSeq(lowest) + k * adj, k)
  IN  IF rounded < 0 THEN 0
      ELSE IF rounded > MAX_HANDICAP_INDEX THEN MAX_HANDICAP_INDEX
      ELSE rounded

\* C12: calculateHandicapIndex returns null for fewer than 3 differentials;
\* for n = 3..20 differentials it returns the mean of the K(n) lowest values
\* plus the adjustment A(n) of the selection table, rounded half-up to one
\* decimal and clamped to [0.0, 54.0].
C12_IndexIsRoundedMeanOfLowest ==
  (call.fn = "calculateHandicapIndex" /\ call.returned) =>
    LET n == Len(call.differentials)
    IN  /\ n < 3 => call.result = <<>>
        /\ n \in 3..20 =>
             call.result = << WhsIndex(call.differentials,
                                       DIFFERENTIAL_SELECTION[n].count,
                                       DIFFERENTIAL_SELECTION[n].adjustment) >>

\* C13: when more than 20 differentials are passed (most recent first), the
\* result equals the result on the first 20 values alone.
C13_OnlyFirst20Considered ==
  (call.fn = "calculateHandicapIndex" /\ call.returned
     /\ Len(call.differentials) > 20) =>
    call.result = calculateHandicapIndex(SubSeq(call.differentials, 1, 20))

\* C14: for every slope rating > 0 the differential is a number whose tenths
\* t are (113 / slopeRating) x (adjustedScore - courseRating) rounded half-up:
\* t <= 10 x + 1/2 < t + 1.
C14_DifferentialRoundedHalfUp ==
  (call.fn = "calculateDifferential" /\ call.returned /\ call.slopeRating > 0) =>
    /\ call.result.kind = "number"
    /\ LET t == call.result.tenths
           n == STANDARD_SLOPE * (10 * call.adjustedScore - call.courseRating)
           d == call.slopeRating
       IN  /\ 2 * d * t <= 2 * n + d
           /\ 2 * n + d < 2 * d * (t + 1)

\* C15: a slope rating of zero or below is rejected with an explicit error:
\* no Infinity, NaN or number is returned.
C15_NonPositiveSlopeRejected ==
  (call.fn = "calculateDifferential" /\ call.returned /\ call.slopeRating <= 0) =>
    call.result.kind = "error"

\* what a hole counts for under the simple policy
SimpleHoleValue(holeScore) ==
  IF holeScore.score = <<>> THEN 0
  ELSE IF holeScore.score[1] <= holeScore.par + 2 THEN holeScore.score[1]
  ELSE holeScore.par + 2

\* C16: calculateSimpleAdjustedScore returns the sum, over the holes with an
\* entered score, of min(score, par + 2); holes whose score is null
\* contribute nothing.
C16_SimpleAdjustedIsCappedSum ==
  (call.fn = "calculateSimpleAdjustedScore" /\ call.returned) =>
    call.result =
      SumSeq([i \in 1..Len(call.scores) |-> SimpleHoleValue(call.scores[i])])

\* C16 witness: a card with a 9 on a par-4 hole, a hole without a score and
\* a hole under its cap; the 9 counts as 6.
C16_Witness ==
  /\ call.fn = "calculateSimpleAdjustedScore" /\ call.returned
  /\ \E i, j, k \in 1..Len(call.scores) :
       /\ call.scores[i].par = 4 /\ call.scores[i].score = <<9>>
       /\ call.scores[j].score = <<>>
       /\ k # i /\ call.scores[k].score = <<1>>
       /\ call.result = 6 + 1

\* C17: over the 18 holes the strokes received, i.e. what getMaxScoreForHole
\* adds to par + 2, sum to the course handicap, for every course handicap
\* calculateCourseHandicap returns, negative values included.
C17_StrokesSumToCourseHandicap ==
  call.fn = "getMaxScoreForHole" =>
    SumSeq([i \in 1..Len(FOX_CREEK_DATA.holeData) |->
              call.result[i] - (getFoxCreekHoleData[i].par + 2)])
      = call.courseHandicap

---------------------------------------------------------------------------
(* Hook claims (SpecHook) *)

C19_FnbFlagIsPerRound ==
  (store.isTracking /\ hist.fnbRaisedThisRound = 0) => ~hook.hasTriggeredFnbPrompt

\* C20: setShowFnbPrompt(true) is called at most once per round.
C20_FnbPromptOncePerRound ==
  hist.fnbRaisedThisRound <= 1

\* C20 witness: the prompt was raised in the round in progress, and a later
\* location update at the hole-8 green, on hole 8 and outside the tee-alert
\* case, raised nothing.
C20_Witness ==
  /\ store.isTracking /\ hist.fnbRaisedThisRound = 1
  /\ hook.hasTriggeredFnbPrompt
  /\ hook.closure.isRoundInProgress /\ hook.closure.currentHole = TURN_HOLE
  /\ hook.closure.teeTime = <<>>
  /\ hook.location = <<PosRange>>
  /\ hook.currentTrigger.type = "none"

---------------------------------------------------------------------------
(* Location subscription of useGeofencing (src/unnamed/part_001):          *)
(* startTracking is async and suspends at `await requestPermission()` and  *)
(* at `await Location.watchPositionAsync(..)`; stopTracking and the        *)
(* auto-stop effect run between its parts.                                 *)

\* startTracking is called at most MaxCalls times
MaxCalls == 2

\* locationSubscription.current = null
NoSubscription == 0

Calls == 1..MaxCalls

\* the hook as mounted: settings enabled or not, permission granted or not
TrackerStates ==
  { [ pc |-> [c \in Calls |-> "idle"], enabled |-> e, granted |-> g,
      isTracking |-> FALSE, current |-> NoSubscription, active |-> {},
      effectPending |-> FALSE, last |-> "mount" ] : e \in BOOLEAN, g \in BOOLEAN }

\* LocationSubscription.remove(): the subscription delivers no more updates
remove(active, subscription) == active \ {subscription}

\* startTracking up to its first await or return
startTrackingBegin(t, c) ==
  IF ~t.enabled THEN [t EXCEPT !.pc[c] = "returned"]
  ELSE IF ~t.granted THEN [t EXCEPT !.pc[c] = "requestPermission"]
  ELSE [t EXCEPT !.pc[c] = "watchPositionAsync",
                 !.active = IF t.current # NoSubscription
                            THEN remove(@, t.current) ELSE @]

\* startTracking from the result of requestPermission to its next await
startTrackingPermitted(t, c, granted) ==
  IF ~granted THEN [t EXCEPT !.pc[c] = "returned", !.granted = FALSE]
  ELSE [t EXCEPT !.pc[c] = "watchPositionAsync", !.granted = TRUE,
                 !.active = IF t.current # NoSubscription
                            THEN remove(@, t.current) ELSE @]

\* startTracking from the subscription watchPositionAsync resolved with:
\* locationSubscription.current = subscription; setIsTracking(true)
startTrackingSubscribed(t, c) ==
  [t EXCEPT !.pc[c] = "returned", !.current = c,
            !.active = @ \cup {c},
            !.isTracking = TRUE,
            !.effectPending = @ \/ ~t.isTracking]

\* stopTracking
stopTracking(t) ==
  [t EXCEPT !.active = IF t.current # NoSubscription
                       THEN remove(@, t.current) ELSE @,
            !.current = NoSubscription,
            !.isTracking = FALSE,
            !.effectPending = @ \/ t.isTracking]

InitTracking ==
  /\ tracker \in TrackerStates
  /\ params = IdleParams
  /\ now = 0
  /\ trigger = NotCalled
  /\ calledAt = 0
  /\ call = NoCall
  /\ store = InitialStore
  /\ hook = InitialHook
  /\ hist = InitialHist
  /\ teeAlert = IdleTee
  /\ card = IdleCard
  /\ rounds = IdleRounds
  /\ units = IdleUnits
  /\ appSettings = IdleAppSettings
  /\ loyalty = IdleLoyalty
  /\ challenge = IdleChallenge

\* the consumer calls startTracking
StartTracking ==
  /\ \E c \in Calls :
       /\ tracker.pc[c] = "idle"
       /\ tracker' = [startTrackingBegin(tracker, c) EXCEPT !.last = "startTracking"]
  /\ UNCHANGED <<params, now, trigger, calledAt, call, store, hook, hist,
                 teeAlert, card, rounds, units, appSettings, loyalty,
                 challenge>>

\* requestPermission resolves
PermissionAnswered ==
  /\ \E c \in Calls, granted \in BOOLEAN :
       /\ tracker.pc[c] = "requestPermission"
       /\ tracker' = [startTrackingPermitted(tracker, c, granted)
                        EXCEPT !.last = "requestPermission"]
  /\ UNCHANGED <<params, now, trigger, calledAt, call, store, hook, hist,
                 teeAlert, card, rounds, units, appSettings, loyalty,
                 challenge>>

\* watchPositionAsync resolves with a subscription
WatchResolved ==
  /\ \E c \in Calls :
       /\ tracker.pc[c] = "watchPositionAsync"
       /\ tracker' = [startTrackingSubscribed(tracker, c)
                        EXCEPT !.last = "watchPositionAsync"]
  /\ UNCHANGED <<params, now, trigger, calledAt, call, store, hook, hist,
                 teeAlert, card, rounds, units, appSettings, loyalty,
                 challenge>>

\* watchPositionAsync rejects: the catch block logs
WatchRejected ==
  /\ \E c \in Calls :
       /\ tracker.pc[c] = "watchPositionAsync"
       /\ tracker' = [tracker EXCEPT !.pc[c] = "returned",
                                     !.last = "watchPositionAsync"]
  /\ UNCHANGED <<params, now, trigger, calledAt, call, store, hook, hist,
                 teeAlert, card, rounds, units, appSettings, loyalty,
                 challenge>>

\* the consumer calls stopTracking
StopTracking ==
  /\ tracker' = [stopTracking(tracker) EXCEPT !.last = "stopTracking"]
  /\ UNCHANGED <<params, now, trigger, calledAt, call, store, hook, hist,
                 teeAlert, card, rounds, units, appSettings, loyalty,
                 challenge>>

\* the settings query returns another value of settings.enabled
SettingsChanged ==
  /\ tracker' = [tracker EXCEPT !.enabled = ~@, !.effectPending = TRUE,
                                !.last = "settings"]
  /\ UNCHANGED <<params, now, trigger, calledAt, call, store, hook, hist,
                 teeAlert, card, rounds, units, appSettings, loyalty,
                 challenge>>

\* the effect on [settings.enabled, isTracking, stopTracking]
AutoStopEffect ==
  /\ tracker.effectPending
  /\ tracker' = [ (IF ~tracker.enabled /\ tracker.isTracking
                   THEN stopTracking(tracker) ELSE tracker)
                  EXCEPT !.effectPending = FALSE, !.last = "effect" ]
  /\ UNCHANGED <<params, now, trigger, calledAt, call, store, hook, hist,
                 teeAlert, card, rounds, units, appSettings, loyalty,
                 challenge>>

NextTracking ==
  \/ StartTracking
  \/ PermissionAnswered
  \/ WatchResolved
  \/ WatchRejected
  \/ StopTracking
  \/ SettingsChanged
  \/ AutoStopEffect

SpecTracking == InitTracking /\ [][NextTracking]_vars

\* promises settle and effects run
FairTracking ==
  /\ WF_vars(PermissionAnswered)
  /\ WF_vars(WatchResolved \/ WatchRejected)
  /\ WF_vars(AutoStopEffect)

SpecTrackingFair == SpecTracking /\ FairTracking

\* C21: whenever settings.enabled is false while tracking, then eventually
\* (unless the setting is enabled again) tracking has stopped: no
\* subscription is active and isTracking is false.
C21_MasterToggleStopsTracking ==
  [](( ~tracker.enabled /\ tracker.isTracking) =>
       <>(tracker.enabled \/ (tracker.active = {} /\ ~tracker.isTracking)))

\* C26: at most one location subscription is active at any time, and when
\* stopTracking has completed none is active.
C26_AtMostOneSubscription ==
  /\ Cardinality(tracker.active) <= 1
  /\ tracker.last = "stopTracking" => tracker.active = {}

---------------------------------------------------------------------------
(* The tee-time alert store (tee-time-alert-store.ts), its monitor
   (TeeTimeAlertMonitor.tsx) and the tee_alert branch of useGeofencing, over
   AsyncStorage and a clock *)

\* the clock of this component advances MaxTeeTicks times
MaxTeeTicks == 4

\* at most MaxPending AsyncStorage operations are in flight
MaxPending == 2

\* the window of shouldTriggerAlert, in minutes
MONITOR_ALERT_MINUTES == 10

\* one step of this component's clock
TeeTickMs == 3 * MsPerMinute

MsPerSecond == TickMs
MsPerHour == 60 * MsPerMinute
MsPerDay == 24 * MsPerHour

\* Date.prototype.toISOString: the fields of YYYY-MM-DDTHH:mm:ss.sssZ, the
\* date as days since the epoch
toISOString_WholeSeconds(t) ==
  [ day |-> t \div MsPerDay, hour |-> (t % MsPerDay) \div MsPerHour,
    minute |-> (t % MsPerHour) \div MsPerMinute,
    second |-> (t % MsPerMinute) \div MsPerSecond, ms |-> 0 ]

toISOString(t) ==
  [ day |-> t \div MsPerDay, hour |-> (t % MsPerDay) \div MsPerHour,
    minute |-> (t % MsPerHour) \div MsPerMinute,
    second |-> (t % MsPerMinute) \div MsPerSecond, ms |-> t % MsPerSecond ]

\* new Date(isoString).getTime()
DateParse(s) ==
  s.day * MsPerDay + s.hour * MsPerHour + s.minute * MsPerMinute
    + s.second * MsPerSecond + s.ms

\* the tee times a player sets: not on a whole second, and on a whole minute
AlertTeeTimes ==
  { MONITOR_ALERT_MINUTES * MsPerMinute + MsPerSecond \div 2,
    (MONITOR_ALERT_MINUTES + 1) * MsPerMinute }

\* the remote zone list: the range zone placed on the practice range
TeeZones ==
  << Zone("2", "Practice Range", "range", NullHole, PracticeRangeCoords, 50,
          "tee_alert") >>

TeePositions == {PracticeRangeCoords, PosMid}

\* PRACTICE_RANGE.radius, in metres
PRACTICE_RANGE_RADIUS == 50

\* the store as created, the hook's ref, the stored key, the operations in
\* flight and loadSavedTeeTime's position; raised tells that triggerAlert was
\* called for the present tee time, dismissed that this alert was dismissed,
\* durable is the time of the last
\* setItem that reached the storage, restarted tells that the app was closed
\* and launched again
LaunchedTee(storage, durable, clock, restarted) ==
  [ teeTime |-> <<>>, isAtRange |-> FALSE, hasAlerted |-> FALSE,
    isAlertVisible |-> FALSE, hasTriggeredTeeAlert |-> FALSE,
    storage |-> storage, ops |-> <<>>, load |-> "idle", clock |-> clock,
    raised |-> FALSE, dismissed |-> FALSE, durable |-> durable,
    restarted |-> restarted,
    last |-> "launch" ]

getMinutesUntilTeeTime(s) == (s.teeTime[1] - s.clock) \div MsPerMinute

shouldTriggerAlert(s) ==
  IF s.teeTime = <<>> \/ ~s.isAtRange \/ s.hasAlerted THEN FALSE
  ELSE /\ getMinutesUntilTeeTime(s) <= MONITOR_ALERT_MINUTES
       /\ getMinutesUntilTeeTime(s) > 0

dismissAlert(s) == [s EXCEPT !.isAlertVisible = FALSE]

\* the effect of useGeofencing on [teeTime]
resetTeeAlertRef(s) == [s EXCEPT !.hasTriggeredTeeAlert = FALSE]

\* the parameters processLocation passes to checkGeofence in this component
teeLocationParams(s, coords) ==
  [ userLat |-> coords.lat, userLng |-> coords.lng, teeTime |-> s.teeTime,
    isCheckedIn |-> TRUE, isRoundInProgress |-> FALSE, currentHole |-> 1,
    hasShownFnbPrompt |-> FALSE, zones |-> TeeZones,
    settings |-> HookSettings ]

InitTee ==
  /\ teeAlert = LaunchedTee(<<>>, <<>>, 0, FALSE)
  /\ params = IdleParams
  /\ now = 0
  /\ trigger = NotCalled
  /\ calledAt = 0
  /\ call = NoCall
  /\ store = InitialStore
  /\ hook = InitialHook
  /\ hist = InitialHist
  /\ tracker = IdleTracker
  /\ card = IdleCard
  /\ rounds = IdleRounds
  /\ units = IdleUnits
  /\ appSettings = IdleAppSettings
  /\ loyalty = IdleLoyalty
  /\ challenge = IdleChallenge

\* the monitor mounts: loadSavedTeeTime is called and waits for getItem
LoadSavedTeeTime ==
  /\ teeAlert.load = "idle"
  /\ Len(teeAlert.ops) < MaxPending
  /\ teeAlert' = [teeAlert EXCEPT !.load = "getItem", !.last = "loadSavedTeeTime",
                        !.ops = Append(@, [op |-> "getItem"])]
  /\ UNCHANGED <<params, now, trigger, calledAt, call, store, hook, hist,
                 tracker, card, rounds, units, appSettings, loyalty,
                 challenge>>

\* setTeeTime(time) with a Date, to its await
TeeSetTeeTime ==
  /\ Len(teeAlert.ops) < MaxPending
  /\ \E time \in AlertTeeTimes :
       teeAlert' = [resetTeeAlertRef(teeAlert) EXCEPT
                 !.teeTime = <<time>>, !.hasAlerted = FALSE,
                 !.raised = FALSE, !.dismissed = FALSE, !.last = "setTeeTime",
                 !.ops = Append(@, [op |-> "setItem", time |-> time,
                                    value |-> toISOString(time)])]
  /\ UNCHANGED <<params, now, trigger, calledAt, call, store, hook, hist,
                 tracker, card, rounds, units, appSettings, loyalty,
                 challenge>>

\* clearTeeTime, to its await
TeeClearTeeTime ==
  /\ Len(teeAlert.ops) < MaxPending
  /\ teeAlert' = [(IF teeAlert.teeTime # <<>> THEN resetTeeAlertRef(teeAlert) ELSE teeAlert) EXCEPT
               !.teeTime = <<>>, !.hasAlerted = FALSE,
               !.isAlertVisible = FALSE, !.raised = FALSE, !.dismissed = FALSE,
               !.last = "clearTeeTime",
               !.ops = Append(@, [op |-> "removeItem", by |-> "clearTeeTime"])]
  /\ UNCHANGED <<params, now, trigger, calledAt, call, store, hook, hist,
                 tracker, card, rounds, units, appSettings, loyalty,
                 challenge>>

\* AsyncStorage completes a setItem
SetItemDone ==
  /\ teeAlert.ops # <<>> /\ Head(teeAlert.ops).op = "setItem"
  /\ teeAlert' = [teeAlert EXCEPT !.ops = Tail(@), !.storage = <<Head(teeAlert.ops).value>>,
                        !.durable = <<Head(teeAlert.ops).time>>,
                        !.last = "setItem"]
  /\ UNCHANGED <<params, now, trigger, calledAt, call, store, hook, hist,
                 tracker, card, rounds, units, appSettings, loyalty,
                 challenge>>

\* AsyncStorage completes a removeItem; loadSavedTeeTime returns after its own
RemoveItemDone ==
  /\ teeAlert.ops # <<>> /\ Head(teeAlert.ops).op = "removeItem"
  /\ teeAlert' = [teeAlert EXCEPT !.ops = Tail(@), !.storage = <<>>, !.durable = <<>>,
                        !.load = IF Head(teeAlert.ops).by = "loadSavedTeeTime"
                                 THEN "done" ELSE @,
                        !.last = "removeItem"]
  /\ UNCHANGED <<params, now, trigger, calledAt, call, store, hook, hist,
                 tracker, card, rounds, units, appSettings, loyalty,
                 challenge>>

\* getItem resolves: the rest of loadSavedTeeTime to its next await
GetItemResolved ==
  /\ teeAlert.load = "getItem"
  /\ teeAlert.ops # <<>> /\ Head(teeAlert.ops).op = "getItem"
  /\ LET saved == teeAlert.storage
         rest == [teeAlert EXCEPT !.ops = Tail(@), !.last = "getItem"]
     IN  IF saved # <<>>
         THEN LET savedDate == DateParse(saved[1])
              IN  IF savedDate > teeAlert.clock
                  THEN teeAlert' = [resetTeeAlertRef(rest) EXCEPT
                                 !.teeTime = <<savedDate>>,
                                 !.hasAlerted = FALSE, !.raised = FALSE,
                                 !.dismissed = FALSE,
                                 !.load = "done"]
                  ELSE teeAlert' = [rest EXCEPT
                                 !.load = "removeItem",
                                 !.ops = Append(@, [op |-> "removeItem",
                                                    by |-> "loadSavedTeeTime"])]
         ELSE teeAlert' = [rest EXCEPT !.load = "done"]
  /\ UNCHANGED <<params, now, trigger, calledAt, call, store, hook, hist,
                 tracker, card, rounds, units, appSettings, loyalty,
                 challenge>>

\* getItem rejects: the catch of loadSavedTeeTime
GetItemRejected ==
  /\ teeAlert.load = "getItem"
  /\ teeAlert.ops # <<>> /\ Head(teeAlert.ops).op = "getItem"
  /\ teeAlert' = [teeAlert EXCEPT !.ops = Tail(@), !.load = "done",
                        !.last = "getItemRejected"]
  /\ UNCHANGED <<params, now, trigger, calledAt, call, store, hook, hist,
                 tracker, card, rounds, units, appSettings, loyalty,
                 challenge>>

\* the monitor's location callback: checkRangeProximity
CheckRangeProximity ==
  /\ teeAlert.teeTime # <<>>
  /\ \E coords \in TeePositions :
       LET distance == calculateDistance(coords.lat, coords.lng,
                         PracticeRangeCoords.lat, PracticeRangeCoords.lng)
       IN  teeAlert' = [teeAlert EXCEPT
                     !.isAtRange = (distance <= 100 * PRACTICE_RANGE_RADIUS),
                     !.last = "checkRangeProximity"]
  /\ UNCHANGED <<params, now, trigger, calledAt, call, store, hook, hist,
                 tracker, card, rounds, units, appSettings, loyalty,
                 challenge>>

\* the monitor's checkAlert, which runs while a tee time is set and
\* hasAlerted is false
CheckAlert ==
  /\ teeAlert.teeTime # <<>> /\ ~teeAlert.hasAlerted
  /\ teeAlert' = IF shouldTriggerAlert(teeAlert)
            THEN [triggerAlert(teeAlert) EXCEPT !.raised = TRUE,
                                                  !.last = "checkAlert"]
            ELSE [teeAlert EXCEPT !.last = "checkAlert"]
  /\ UNCHANGED <<params, now, trigger, calledAt, call, store, hook, hist,
                 tracker, card, rounds, units, appSettings, loyalty,
                 challenge>>

\* a location update of useGeofencing: the tee_alert branch of processLocation
TeeLocationUpdate ==
  /\ \E coords \in TeePositions :
       LET t == checkGeofence(teeLocationParams(teeAlert, coords), teeAlert.clock)
       IN  teeAlert' = IF t.type = "tee_alert" /\ teeAlertArmed(teeAlert)
                  THEN [triggerAlert(markTeeAlertTriggered(teeAlert)) EXCEPT
                          !.raised = TRUE, !.last = "processLocation"]
                  ELSE [teeAlert EXCEPT !.last = "processLocation"]
  /\ UNCHANGED <<params, now, trigger, calledAt, call, store, hook, hist,
                 tracker, card, rounds, units, appSettings, loyalty,
                 challenge>>

\* the player dismisses the alert: handleDismiss
DismissAlert ==
  /\ teeAlert.isAlertVisible
  /\ teeAlert' = [dismissAlert(teeAlert) EXCEPT !.dismissed = teeAlert.raised,
                                      !.last = "dismissAlert"]
  /\ UNCHANGED <<params, now, trigger, calledAt, call, store, hook, hist,
                 tracker, card, rounds, units, appSettings, loyalty,
                 challenge>>

\* time passes
TeeTick ==
  /\ teeAlert.clock < MaxTeeTicks * TeeTickMs
  /\ teeAlert' = [teeAlert EXCEPT !.clock = @ + TeeTickMs, !.last = "tick"]
  /\ UNCHANGED <<params, now, trigger, calledAt, call, store, hook, hist,
                 tracker, card, rounds, units, appSettings, loyalty,
                 challenge>>

\* the app is closed and launched again: the store is created anew, the
\* storage stays, operations in flight are lost
Restart ==
  /\ teeAlert' = LaunchedTee(teeAlert.storage, teeAlert.durable, teeAlert.clock, TRUE)
  /\ UNCHANGED <<params, now, trigger, calledAt, call, store, hook, hist,
                 tracker, card, rounds, units, appSettings, loyalty,
                 challenge>>

NextTee ==
  \/ LoadSavedTeeTime
  \/ TeeSetTeeTime
  \/ TeeClearTeeTime
  \/ SetItemDone
  \/ RemoveItemDone
  \/ GetItemResolved
  \/ GetItemRejected
  \/ CheckRangeProximity
  \/ CheckAlert
  \/ TeeLocationUpdate
  \/ DismissAlert
  \/ TeeTick
  \/ Restart

SpecTee == InitTee /\ [][NextTee]_vars

\* C22: a tee time whose setItem completed is restored exactly by
\* loadSavedTeeTime when getItem resolves and the time is still in the future
\* (teeTime is that time and hasAlerted is false); when the time has passed
\* the step leaves teeTime as it was (null after a restart) and the removal
\* it starts empties the stored key.
C22_TeeTimeSurvivesRestart ==
  [][ /\ GetItemResolved =>
           IF teeAlert.durable # <<>> /\ teeAlert.durable[1] > teeAlert.clock
           THEN teeAlert'.teeTime = teeAlert.durable /\ ~teeAlert'.hasAlerted
           ELSE /\ teeAlert'.teeTime = teeAlert.teeTime
                /\ teeAlert.durable # <<>> => teeAlert'.load = "removeItem"
      /\ (RemoveItemDone /\ Head(teeAlert.ops).by = "loadSavedTeeTime") =>
           teeAlert'.storage = <<>> /\ teeAlert'.load = "done"
    ]_vars

\* a stored tee time not on a whole second was restored after a restart
C22_Witness ==
  /\ teeAlert.restarted
  /\ teeAlert.load = "done" /\ teeAlert.last = "getItem"
  /\ teeAlert.teeTime # <<>> /\ teeAlert.teeTime[1] % MsPerSecond # 0
  /\ teeAlert.teeTime = teeAlert.durable

\* an expired stored tee time was removed by loadSavedTeeTime
C22_WitnessExpired ==
  /\ teeAlert.restarted
  /\ teeAlert.load = "done" /\ teeAlert.last = "removeItem"
  /\ teeAlert.teeTime = <<>> /\ teeAlert.storage = <<>>

\* C25: once the alert of a tee time was shown and dismissed, it is not
\* visible again until the tee time is changed or cleared.
C25_AlertVisibleOncePerTeeTime ==
  teeAlert.dismissed => ~teeAlert.isAlertVisible

---------------------------------------------------------------------------
(* The scorecard store's round, score prompt and turn break (part_002), with
   the countdown timer of the scorecard screen *)

\* turnTimeRemaining at the start of the break: 10 * 60
TURN_BREAK_SECONDS == 600

\* the hole whose confirmed score starts the break, the hole after the break,
\* and the last hole
BREAK_AFTER_HOLE == 9
HOLE_AFTER_BREAK == 10
LAST_HOLE == 18

\* seconds between saveRound and resumeRound: none, one second short of the
\* break, and longer than the break
ResumeDelays == {0, TURN_BREAK_SECONDS - 1, TURN_BREAK_SECONDS + 1}

\* what saveRound stores of the state
SavedRoundData(s) ==
  [ currentHole |-> s.currentHole, isTracking |-> s.isTracking,
    isTurnPaused |-> s.isTurnPaused,
    turnTimeRemaining |-> s.turnTimeRemaining ]

\* the store as created, over the saved round of the storage
LaunchedCard(saved) ==
  [ currentHole |-> 1, isTracking |-> FALSE, isTurnPaused |-> FALSE,
    turnTimeRemaining |-> 0, isScorePromptVisible |-> FALSE,
    pendingHoleTransition |-> <<>>, saved |-> saved, last |-> "launch" ]

saveRound(s) ==
  IF ~s.isTracking /\ ~s.isTurnPaused THEN s
  ELSE [s EXCEPT !.saved = <<SavedRoundData(s)>>]

discardSavedRound(s) == [s EXCEPT !.saved = <<>>]

updateTurnTime_KeepsHole(s) ==
  IF s.turnTimeRemaining <= 1
  THEN saveRound([s EXCEPT !.isTurnPaused = FALSE, !.turnTimeRemaining = 0])
  ELSE [s EXCEPT !.turnTimeRemaining = @ - 1]

updateTurnTime(s) ==
  IF s.turnTimeRemaining <= 1
  THEN saveRound([s EXCEPT !.isTurnPaused = FALSE, !.turnTimeRemaining = 0,
                           !.currentHole = HOLE_AFTER_BREAK])
  ELSE [s EXCEPT !.turnTimeRemaining = @ - 1]

skipTurn(s) ==
  saveRound([s EXCEPT !.isTurnPaused = FALSE, !.turnTimeRemaining = 0,
                      !.currentHole = HOLE_AFTER_BREAK])

triggerHoleComplete(s, completedHole) ==
  saveRound([s EXCEPT !.isScorePromptVisible = TRUE,
                      !.pendingHoleTransition = <<completedHole>>])

confirmScoreAndAdvance(s) ==
  IF s.pendingHoleTransition = <<>> THEN s
  ELSE LET nextHole == s.pendingHoleTransition[1] + 1
           closed == [s EXCEPT !.isScorePromptVisible = FALSE,
                               !.pendingHoleTransition = <<>>]
       IN  IF s.pendingHoleTransition[1] = BREAK_AFTER_HOLE
           THEN saveRound([closed EXCEPT
                             !.isTurnPaused = TRUE,
                             !.turnTimeRemaining = TURN_BREAK_SECONDS])
           ELSE IF nextHole <= LAST_HOLE
           THEN saveRound([closed EXCEPT !.currentHole = nextHole])
           ELSE discardSavedRound([closed EXCEPT !.isTracking = FALSE])

dismissScorePrompt(s) ==
  [s EXCEPT !.isScorePromptVisible = FALSE, !.pendingHoleTransition = <<>>]

resumeRound(s, timeSinceSave) ==
  IF s.saved = <<>> THEN s
  ELSE LET parsed == s.saved[1]
       IN  [s EXCEPT !.currentHole = parsed.currentHole,
                     !.isTracking = parsed.isTracking,
                     !.isTurnPaused = parsed.isTurnPaused,
                     !.turnTimeRemaining =
                        MathMax(0, parsed.turnTimeRemaining - timeSinceSave)]

InitCard ==
  /\ card = LaunchedCard(<<>>)
  /\ params = IdleParams
  /\ now = 0
  /\ trigger = NotCalled
  /\ calledAt = 0
  /\ call = NoCall
  /\ store = InitialStore
  /\ hook = InitialHook
  /\ hist = InitialHist
  /\ tracker = IdleTracker
  /\ teeAlert = IdleTee
  /\ rounds = IdleRounds
  /\ units = IdleUnits
  /\ appSettings = IdleAppSettings
  /\ loyalty = IdleLoyalty
  /\ challenge = IdleChallenge

\* startTracking of the scorecard store
CardStartTracking ==
  /\ ~card.isTracking /\ ~card.isTurnPaused
  /\ card' = [saveRound([card EXCEPT !.isTracking = TRUE])
                EXCEPT !.last = "startTracking"]
  /\ UNCHANGED <<params, now, trigger, calledAt, call, store, hook, hist,
                 tracker, teeAlert, rounds, units, appSettings, loyalty,
                 challenge>>

\* the green is reached, or the flag button is pressed
TriggerHoleComplete ==
  /\ card.isTracking /\ ~card.isTurnPaused /\ ~card.isScorePromptVisible
  /\ card' = [triggerHoleComplete(card, card.currentHole)
                EXCEPT !.last = "triggerHoleComplete"]
  /\ UNCHANGED <<params, now, trigger, calledAt, call, store, hook, hist,
                 tracker, teeAlert, rounds, units, appSettings, loyalty,
                 challenge>>

ConfirmScoreAndAdvance ==
  /\ card.isScorePromptVisible
  /\ card' = [confirmScoreAndAdvance(card)
                EXCEPT !.last = "confirmScoreAndAdvance"]
  /\ UNCHANGED <<params, now, trigger, calledAt, call, store, hook, hist,
                 tracker, teeAlert, rounds, units, appSettings, loyalty,
                 challenge>>

DismissScorePrompt ==
  /\ card.isScorePromptVisible
  /\ card' = [dismissScorePrompt(card) EXCEPT !.last = "dismissScorePrompt"]
  /\ UNCHANGED <<params, now, trigger, calledAt, call, store, hook, hist,
                 tracker, teeAlert, rounds, units, appSettings, loyalty,
                 challenge>>

\* the previous-hole and next-hole buttons
CardSetCurrentHole ==
  /\ ~card.isTurnPaused /\ ~card.isScorePromptVisible
  /\ \E hole \in {card.currentHole - 1, card.currentHole + 1} :
       /\ hole \in 1..LAST_HOLE
       /\ card' = [saveRound([card EXCEPT !.currentHole = hole])
                     EXCEPT !.last = "setCurrentHole"]
  /\ UNCHANGED <<params, now, trigger, calledAt, call, store, hook, hist,
                 tracker, teeAlert, rounds, units, appSettings, loyalty,
                 challenge>>

\* a tick of the turn countdown timer, which runs while isTurnPaused
UpdateTurnTime ==
  /\ card.isTurnPaused
  /\ card' = [updateTurnTime(card) EXCEPT !.last = "updateTurnTime"]
  /\ UNCHANGED <<params, now, trigger, calledAt, call, store, hook, hist,
                 tracker, teeAlert, rounds, units, appSettings, loyalty,
                 challenge>>

\* the button of the turn overlay
SkipTurn ==
  /\ card.isTurnPaused
  /\ card' = [skipTurn(card) EXCEPT !.last = "skipTurn"]
  /\ UNCHANGED <<params, now, trigger, calledAt, call, store, hook, hist,
                 tracker, teeAlert, rounds, units, appSettings, loyalty,
                 challenge>>

\* the app is closed and launched again: the saved round stays
Relaunch ==
  /\ card.last # "launch"
  /\ card' = LaunchedCard(card.saved)
  /\ UNCHANGED <<params, now, trigger, calledAt, call, store, hook, hist,
                 tracker, teeAlert, rounds, units, appSettings, loyalty,
                 challenge>>

\* the resume prompt is accepted
ResumeRound ==
  /\ card.last = "launch"
  /\ card.saved # <<>>
  /\ \E timeSinceSave \in ResumeDelays :
       card' = [resumeRound(card, timeSinceSave) EXCEPT !.last = "resumeRound"]
  /\ UNCHANGED <<params, now, trigger, calledAt, call, store, hook, hist,
                 tracker, teeAlert, rounds, units, appSettings, loyalty,
                 challenge>>

NextCard ==
  \/ CardStartTracking
  \/ TriggerHoleComplete
  \/ ConfirmScoreAndAdvance
  \/ DismissScorePrompt
  \/ CardSetCurrentHole
  \/ UpdateTurnTime
  \/ SkipTurn
  \/ Relaunch
  \/ ResumeRound

SpecCard == InitCard /\ [][NextCard]_vars

\* the countdown timer fires while the break lasts
FairCard == WF_vars(UpdateTurnTime)

SpecCardFair == SpecCard /\ FairCard

\* C23: confirming the score of hole 9 starts the turn break with 600 seconds
\* and leaves currentHole as it is; every turn break eventually ends; when
\* updateTurnTime or skipTurn ends it, isTurnPaused is false,
\* turnTimeRemaining is 0 and currentHole is 10.
C23_TurnBreak ==
  /\ [][ /\ (ConfirmScoreAndAdvance
               /\ card.pendingHoleTransition = <<BREAK_AFTER_HOLE>>) =>
              /\ card'.isTurnPaused
              /\ card'.turnTimeRemaining = 600
              /\ card'.currentHole = card.currentHole
         /\ ((UpdateTurnTime \/ SkipTurn) /\ ~card'.isTurnPaused) =>
              /\ card'.turnTimeRemaining = 0
              /\ card'.currentHole = 10
       ]_vars
  /\ (card.isTurnPaused ~> ~card.isTurnPaused)

\* a break that started at 600 seconds was ended by the countdown
C23_Witness ==
  /\ card.last = "updateTurnTime"
  /\ ~card.isTurnPaused /\ card.currentHole = HOLE_AFTER_BREAK
  /\ card.saved # <<>> /\ ~card.saved[1].isTurnPaused

---------------------------------------------------------------------------
(* Round history of the scorecard store: saveRoundToHistory and deleteRound
   over AsyncStorage (part_002) *)

\* saveRoundToHistory and deleteRound are called MaxHistoryCalls times in all
MaxHistoryCalls == 3

\* the history keeps this many rounds
HISTORY_LIMIT == 50

\* the ids of a history
RoundIds(h) == {h[i] : i \in 1..Len(h)}

\* [newRound, ...roundHistory].slice(0, 50)
prependRound(newRound, roundHistory) ==
  LET all == <<newRound>> \o roundHistory
  IN  SubSeq(all, 1, MathMin(Len(all), HISTORY_LIMIT))

\* roundHistory.filter((round) => round.id !== roundId)
filterRound(roundHistory, roundId) ==
  SelectSeq(roundHistory, LAMBDA id : id # roundId)

\* a history of n rounds, the newest first; a round is its id (Date.now())
HistoryOf(n) == [i \in 1..n |-> n + 1 - i]

\* the store and the stored key hold the same history; calls are the calls
\* waiting for setItem, in the order of their writes; saved, deleted and
\* pushedOut are the ids of the rounds whose save completed, whose deletion
\* completed, and which a completed save cut off at the limit
LoadedRounds(h) ==
  [ roundHistory |-> h, stored |-> h, calls |-> <<>>, clock |-> Len(h),
    made |-> 0, saved |-> RoundIds(h), deleted |-> {}, pushedOut |-> {},
    last |-> "loadRoundHistory" ]

InitRounds ==
  /\ rounds \in {LoadedRounds(HistoryOf(n)) : n \in {0, 1, HISTORY_LIMIT - 1}}
  /\ params = IdleParams
  /\ now = 0
  /\ trigger = NotCalled
  /\ calledAt = 0
  /\ call = NoCall
  /\ store = InitialStore
  /\ hook = InitialHook
  /\ hist = InitialHist
  /\ tracker = IdleTracker
  /\ teeAlert = IdleTee
  /\ card = IdleCard
  /\ units = IdleUnits
  /\ appSettings = IdleAppSettings
  /\ loyalty = IdleLoyalty
  /\ challenge = IdleChallenge

\* saveRoundToHistory to its await
SaveRoundToHistory ==
  /\ rounds.made < MaxHistoryCalls
  /\ LET newRound == rounds.clock + 1
         updatedHistory == prependRound(newRound, rounds.roundHistory)
     IN  rounds' = [rounds EXCEPT
                      !.clock = newRound, !.made = @ + 1,
                      !.calls = Append(@, [op |-> "saveRoundToHistory",
                                           round |-> newRound,
                                           updatedHistory |-> updatedHistory,
                                           cut |-> RoundIds(rounds.roundHistory)
                                                     \ RoundIds(updatedHistory)]),
                      !.last = "saveRoundToHistory"]
  /\ UNCHANGED <<params, now, trigger, calledAt, call, store, hook, hist,
                 tracker, teeAlert, card, units, appSettings, loyalty,
                 challenge>>

\* the rounds the player picks for deletion: the newest and the oldest shown
Picked(roundHistory) ==
  IF roundHistory = <<>> THEN {}
  ELSE {roundHistory[1], roundHistory[Len(roundHistory)]}

\* deleteRound(roundId) to its await, for a round of the history screen
DeleteRound ==
  /\ rounds.made < MaxHistoryCalls
  /\ \E roundId \in Picked(rounds.roundHistory) :
       LET updatedHistory == filterRound(rounds.roundHistory, roundId)
       IN  rounds' = [rounds EXCEPT
                        !.made = @ + 1,
                        !.calls = Append(@, [op |-> "deleteRound",
                                             round |-> roundId,
                                             updatedHistory |-> updatedHistory,
                                             cut |-> {}]),
                        !.last = "deleteRound"]
  /\ UNCHANGED <<params, now, trigger, calledAt, call, store, hook, hist,
                 tracker, teeAlert, card, units, appSettings, loyalty,
                 challenge>>

\* the setItem of the oldest waiting call completes and the call goes on:
\* set({ roundHistory: updatedHistory })
HistoryWritten ==
  /\ rounds.calls # <<>>
  /\ LET c == Head(rounds.calls)
     IN  rounds' = [rounds EXCEPT
                      !.calls = Tail(@),
                      !.stored = c.updatedHistory,
                      !.roundHistory = c.updatedHistory,
                      !.saved = IF c.op = "saveRoundToHistory"
                                THEN @ \cup {c.round} ELSE @,
                      !.deleted = IF c.op = "deleteRound"
                                  THEN @ \cup {c.round} ELSE @,
                      !.pushedOut = IF c.op = "saveRoundToHistory"
                                    THEN @ \cup c.cut ELSE @,
                      !.last = "setItem"]
  /\ UNCHANGED <<params, now, trigger, calledAt, call, store, hook, hist,
                 tracker, teeAlert, card, units, appSettings, loyalty,
                 challenge>>

\* the setItem of the oldest waiting call fails: the catch of the call
HistoryWriteFailed ==
  /\ rounds.calls # <<>>
  /\ rounds' = [rounds EXCEPT !.calls = Tail(@), !.last = "catch"]
  /\ UNCHANGED <<params, now, trigger, calledAt, call, store, hook, hist,
                 tracker, teeAlert, card, units, appSettings, loyalty,
                 challenge>>

NextRounds ==
  \/ SaveRoundToHistory
  \/ DeleteRound
  \/ HistoryWritten
  \/ HistoryWriteFailed

SpecRounds == InitRounds /\ [][NextRounds]_vars

\* C27: when no call is waiting, the history of the store and the stored
\* history are the same, hold every round whose save completed and which was
\* neither deleted nor cut off at the limit of 50, and hold no deleted round.
C27_NoHistoryUpdateLost ==
  rounds.calls = <<>> =>
    /\ rounds.stored = rounds.roundHistory
    /\ (rounds.saved \ (rounds.deleted \cup rounds.pushedOut))
          \subseteq RoundIds(rounds.roundHistory)
    /\ rounds.deleted \cap RoundIds(rounds.roundHistory) = {}

---------------------------------------------------------------------------
(* metersToYards and yardsToMeters (geo.ts). Metres going in are whole
   centimetres, metres coming out are tenths of a millimetre. On the inputs
   below the IEEE-754 evaluation and the exact one give the same yards and
   the same side of every comparison made here. *)

\* the inputs lie in windows of WindowCm centimetres: from 0, below
\* NearMeters metres, and from FarMeters metres
WindowCm == 150
NearMeters == 40000
FarMeters == 60000

\* METERS_PER_YARD = 0.9144, in tenths of a millimetre
METERS_PER_YARD == 9144

\* YARDS_PER_METER = 1.09361, in hundred-thousandths of a yard
YARDS_PER_METER == 109361

\* hundred-thousandths of a yard in a yard, and centimetres in a metre
YardParts == 100000
CmPerMeter == 100

ConvertInputs ==
     (0 .. WindowCm)
  \cup (NearMeters * CmPerMeter - WindowCm .. NearMeters * CmPerMeter)
  \cup (FarMeters * CmPerMeter .. FarMeters * CmPerMeter + WindowCm)

\* meters * YARDS_PER_METER as whole yards and a rest in YardParts * CmPerMeter
\* parts of a yard, for meters given in centimetres; the hundreds of metres
\* are multiplied apart to stay inside 32 bits
yardsProduct(cm) ==
  LET hundreds == cm \div (100 * CmPerMeter)
      low == cm % (100 * CmPerMeter)
      perHundred == 100 * YARDS_PER_METER
      whole == hundreds * (perHundred \div YardParts)
      parts == hundreds * ((perHundred % YardParts) \div 100)
      rest == (parts % 1000) * (YardParts \div 10) + low * YARDS_PER_METER
  IN  [ yards |-> whole + parts \div 1000 + rest \div (YardParts * CmPerMeter),
        rest |-> rest % (YardParts * CmPerMeter) ]

\* Math.floor in place of Math.round
metersToYards_Floor(cm) == yardsProduct(cm).yards

\* Math.round(meters * YARDS_PER_METER)
metersToYards(cm) ==
  LET p == yardsProduct(cm)
  IN  IF 2 * p.rest >= YardParts * CmPerMeter THEN p.yards + 1 ELSE p.yards

\* yards * METERS_PER_YARD
yardsToMeters(yards) == yards * METERS_PER_YARD

\* |a - b|
Distance(a, b) == IF a >= b THEN a - b ELSE b - a

InitUnits ==
  /\ units \in {[ meters |-> x, yards |-> <<>>, back |-> <<>> ] :
                  x \in ConvertInputs}
  /\ params = IdleParams
  /\ now = 0
  /\ trigger = NotCalled
  /\ calledAt = 0
  /\ call = NoCall
  /\ store = InitialStore
  /\ hook = InitialHook
  /\ hist = InitialHist
  /\ tracker = IdleTracker
  /\ teeAlert = IdleTee
  /\ card = IdleCard
  /\ rounds = IdleRounds
  /\ appSettings = IdleAppSettings
  /\ loyalty = IdleLoyalty
  /\ challenge = IdleChallenge

CallMetersToYards ==
  /\ units.yards = <<>>
  /\ units' = [units EXCEPT !.yards = <<metersToYards(units.meters)>>]
  /\ UNCHANGED <<params, now, trigger, calledAt, call, store, hook, hist,
                 tracker, teeAlert, card, rounds, appSettings, loyalty,
                 challenge>>

CallYardsToMeters ==
  /\ units.yards # <<>> /\ units.back = <<>>
  /\ units' = [units EXCEPT !.back = <<yardsToMeters(units.yards[1])>>]
  /\ UNCHANGED <<params, now, trigger, calledAt, call, store, hook, hist,
                 tracker, teeAlert, card, rounds, appSettings, loyalty,
                 challenge>>

NextUnits ==
  \/ CallMetersToYards
  \/ CallYardsToMeters

SpecUnits == InitUnits /\ [][NextUnits]_vars

\* the distance between x and yardsToMeters(metersToYards(x)), in tenths of
\* a millimetre
RoundTripError == Distance(units.back[1], units.meters * 100)

---------------------------------------------------------------------------
(* useAppSettings: the ['geofenceSettings'] query cache and the optimistic
   update mutation (useAppSettings.ts), over the settings row of the server *)

\* at most MaxMutations updates are made
MaxMutations == 2

Mutations == 1..MaxMutations

getDefaultGeofenceSettings ==
  [ enabled |-> TRUE, check_in_enabled |-> TRUE, tee_time_alerts |-> TRUE,
    turn_prompt_enabled |-> TRUE ]

\* { ...a, ...b }
Spread(a, b) ==
  [k \in DOMAIN a \cup DOMAIN b |-> IF k \in DOMAIN b THEN b[k] ELSE a[k]]

\* the updates the toggles make
SettingsUpdates ==
  { [enabled |-> FALSE], [enabled |-> TRUE], [tee_time_alerts |-> FALSE] }

\* nothing in the cache, or a value
Undefined == <<>>

\* setQueryData updater of onMutate
optimisticUpdate(old, newSettings) ==
  Spread(Spread(getDefaultGeofenceSettings,
                IF old = Undefined THEN << >> ELSE old[1]),
         newSettings)

\* onError: the new cache
onError(cache, context) ==
  IF context.previousSettings # Undefined
  THEN context.previousSettings ELSE cache

NoMutation == [ pc |-> "idle" ]

\* the hook as mounted: the query is fetching and the cache is empty, or the
\* query has resolved
MountedSettings(cache, fetching) ==
  [ cache |-> cache, server |-> getDefaultGeofenceSettings,
    fetching |-> fetching, calls |-> [c \in Mutations |-> NoMutation],
    last |-> "mount", lastCall |-> 0 ]

InitAppSettings ==
  /\ appSettings \in { MountedSettings(Undefined, TRUE),
                       MountedSettings(<<getDefaultGeofenceSettings>>, FALSE) }
  /\ params = IdleParams
  /\ now = 0
  /\ trigger = NotCalled
  /\ calledAt = 0
  /\ call = NoCall
  /\ store = InitialStore
  /\ hook = InitialHook
  /\ hist = InitialHist
  /\ tracker = IdleTracker
  /\ teeAlert = IdleTee
  /\ card = IdleCard
  /\ rounds = IdleRounds
  /\ units = IdleUnits
  /\ loyalty = IdleLoyalty
  /\ challenge = IdleChallenge

\* updateSettings(newSettings): mutateAsync, up to the await of onMutate;
\* cancelQueries stops the fetch under way
UpdateSettings ==
  /\ \E c \in Mutations, newSettings \in SettingsUpdates :
       /\ appSettings.calls[c].pc = "idle"
       /\ \A d \in Mutations : d < c => appSettings.calls[d].pc # "idle"
       /\ appSettings' = [appSettings EXCEPT
                            !.calls[c] = [ pc |-> "onMutate",
                                           newSettings |-> newSettings ],
                            !.fetching = FALSE,
                            !.last = "mutate", !.lastCall = c]
  /\ UNCHANGED <<params, now, trigger, calledAt, call, store, hook, hist,
                 tracker, teeAlert, card, rounds, units, loyalty, challenge>>

\* the rest of onMutate: snapshot, optimistic update, and mutationFn starts;
\* before is the cache value at the optimistic update
OnMutate ==
  /\ \E c \in Mutations :
       /\ appSettings.calls[c].pc = "onMutate"
       /\ appSettings' = [appSettings EXCEPT
                            !.cache = <<optimisticUpdate(appSettings.cache,
                                          appSettings.calls[c].newSettings)>>,
                            !.calls[c] = [ pc |-> "mutationFn",
                                           newSettings |-> @.newSettings,
                                           context |-> [ previousSettings |->
                                                           appSettings.cache ],
                                           before |-> appSettings.cache ],
                            !.last = "onMutate", !.lastCall = c]
  /\ UNCHANGED <<params, now, trigger, calledAt, call, store, hook, hist,
                 tracker, teeAlert, card, rounds, units, loyalty, challenge>>

\* updateGeofenceSettings returns true; onSettled invalidates the query
MutationSucceeded ==
  /\ \E c \in Mutations :
       /\ appSettings.calls[c].pc = "mutationFn"
       /\ appSettings' = [appSettings EXCEPT
                            !.server = Spread(@, appSettings.calls[c].newSettings),
                            !.calls[c].pc = "success",
                            !.fetching = TRUE,
                            !.last = "onSuccess", !.lastCall = c]
  /\ UNCHANGED <<params, now, trigger, calledAt, call, store, hook, hist,
                 tracker, teeAlert, card, rounds, units, loyalty, challenge>>

\* updateGeofenceSettings returns false: mutationFn throws, onError rolls
\* back, onSettled invalidates the query
MutationFailed ==
  /\ \E c \in Mutations :
       /\ appSettings.calls[c].pc = "mutationFn"
       /\ appSettings' = [appSettings EXCEPT
                            !.cache = onError(@, appSettings.calls[c].context),
                            !.calls[c].pc = "error",
                            !.fetching = TRUE,
                            !.last = "onError", !.lastCall = c]
  /\ UNCHANGED <<params, now, trigger, calledAt, call, store, hook, hist,
                 tracker, teeAlert, card, rounds, units, loyalty, challenge>>

\* the query function resolves with the settings of the server
FetchResolved ==
  /\ appSettings.fetching
  /\ appSettings' = [appSettings EXCEPT !.cache = <<appSettings.server>>,
                                        !.fetching = FALSE,
                                        !.last = "fetch"]
  /\ UNCHANGED <<params, now, trigger, calledAt, call, store, hook, hist,
                 tracker, teeAlert, card, rounds, units, loyalty, challenge>>

NextAppSettings ==
  \/ UpdateSettings
  \/ OnMutate
  \/ MutationSucceeded
  \/ MutationFailed
  \/ FetchResolved

SpecAppSettings == InitAppSettings /\ [][NextAppSettings]_vars

\* C28: after onError of a mutation the cache holds the value it had
\* immediately before that mutation's optimistic update, an empty cache
\* included.
C28_RollbackRestoresPrevious ==
  appSettings.last = "onError" =>
    appSettings.cache = appSettings.calls[appSettings.lastCall].before

---------------------------------------------------------------------------
(* addLoyaltyTransaction over the loyalty_transactions and user_profiles
   tables of one user (part_000) *)

\* addLoyaltyTransaction is called MaxLoyaltyCalls times
MaxLoyaltyCalls == 2

LoyaltyCalls == 1..MaxLoyaltyCalls

\* the points of a transaction: round completed, and under-par bonus
TransactionPoints == {10, 25}

\* the balances the user starts from
StartingPoints == {0, 100}

NoLoyaltyCall == [ pc |-> "idle" ]

\* the user's profile row and the sum of the points of the user's rows of
\* loyalty_transactions
LoyaltyTables(points) ==
  [ loyalty_points |-> points, transactionsTotal |-> points,
    calls |-> [c \in LoyaltyCalls |-> NoLoyaltyCall], last |-> "none" ]

\* getUserLoyaltyPoints: profile?.loyalty_points ?? 0
getUserLoyaltyPoints(profile) == IF profile = <<>> THEN 0 ELSE profile[1]

InitLoyalty ==
  /\ loyalty \in {LoyaltyTables(p) : p \in StartingPoints}
  /\ params = IdleParams
  /\ now = 0
  /\ trigger = NotCalled
  /\ calledAt = 0
  /\ call = NoCall
  /\ store = InitialStore
  /\ hook = InitialHook
  /\ hist = InitialHist
  /\ tracker = IdleTracker
  /\ teeAlert = IdleTee
  /\ card = IdleCard
  /\ rounds = IdleRounds
  /\ units = IdleUnits
  /\ appSettings = IdleAppSettings
  /\ challenge = IdleChallenge

\* addLoyaltyTransaction(transaction): the POST inserts the row
TransactionInserted ==
  /\ \E c \in LoyaltyCalls, points \in TransactionPoints :
       /\ loyalty.calls[c].pc = "idle"
       /\ \A d \in LoyaltyCalls : d < c => loyalty.calls[d].pc # "idle"
       /\ loyalty' = [loyalty EXCEPT
                        !.transactionsTotal = @ + points,
                        !.calls[c] = [ pc |-> "getUserLoyaltyPoints",
                                       points |-> points ],
                        !.last = "POST"]
  /\ UNCHANGED <<params, now, trigger, calledAt, call, store, hook, hist,
                 tracker, teeAlert, card, rounds, units, appSettings,
                 challenge>>

\* the POST fails: result is null and the function returns null
TransactionRejected ==
  /\ \E c \in LoyaltyCalls :
       /\ loyalty.calls[c].pc = "idle"
       /\ \A d \in LoyaltyCalls : d < c => loyalty.calls[d].pc # "idle"
       /\ loyalty' = [loyalty EXCEPT !.calls[c] = [ pc |-> "returned" ],
                                     !.last = "POST failed"]
  /\ UNCHANGED <<params, now, trigger, calledAt, call, store, hook, hist,
                 tracker, teeAlert, card, rounds, units, appSettings,
                 challenge>>

\* getUserLoyaltyPoints resolves with the profile's points
PointsRead ==
  /\ \E c \in LoyaltyCalls :
       /\ loyalty.calls[c].pc = "getUserLoyaltyPoints"
       /\ loyalty' = [loyalty EXCEPT
                        !.calls[c] = [ pc |-> "PATCH", points |-> @.points,
                                       currentPoints |->
                                         getUserLoyaltyPoints(
                                           <<loyalty.loyalty_points>>) ],
                        !.last = "read"]
  /\ UNCHANGED <<params, now, trigger, calledAt, call, store, hook, hist,
                 tracker, teeAlert, card, rounds, units, appSettings,
                 challenge>>

\* the profile request fails: getUserProfile gives null
PointsReadFailed ==
  /\ \E c \in LoyaltyCalls :
       /\ loyalty.calls[c].pc = "getUserLoyaltyPoints"
       /\ loyalty' = [loyalty EXCEPT
                        !.calls[c] = [ pc |-> "PATCH", points |-> @.points,
                                       currentPoints |->
                                         getUserLoyaltyPoints(<<>>) ],
                        !.last = "read failed"]
  /\ UNCHANGED <<params, now, trigger, calledAt, call, store, hook, hist,
                 tracker, teeAlert, card, rounds, units, appSettings,
                 challenge>>

\* the PATCH of user_profiles is applied
ProfilePatched ==
  /\ \E c \in LoyaltyCalls :
       /\ loyalty.calls[c].pc = "PATCH"
       /\ loyalty' = [loyalty EXCEPT
                        !.loyalty_points = loyalty.calls[c].currentPoints
                                             + loyalty.calls[c].points,
                        !.calls[c] = [ pc |-> "returned" ],
                        !.last = "PATCH"]
  /\ UNCHANGED <<params, now, trigger, calledAt, call, store, hook, hist,
                 tracker, teeAlert, card, rounds, units, appSettings,
                 challenge>>

\* the PATCH fails: supabaseRequest gives null, which is not looked at
ProfilePatchFailed ==
  /\ \E c \in LoyaltyCalls :
       /\ loyalty.calls[c].pc = "PATCH"
       /\ loyalty' = [loyalty EXCEPT !.calls[c] = [ pc |-> "returned" ],
                                     !.last = "PATCH failed"]
  /\ UNCHANGED <<params, now, trigger, calledAt, call, store, hook, hist,
                 tracker, teeAlert, card, rounds, units, appSettings,
                 challenge>>

NextLoyalty ==
  \/ TransactionInserted
  \/ TransactionRejected
  \/ PointsRead
  \/ PointsReadFailed
  \/ ProfilePatched
  \/ ProfilePatchFailed

SpecLoyalty == InitLoyalty /\ [][NextLoyalty]_vars

\* C29: whenever no addLoyaltyTransaction call is under way, the user's
\* loyalty_points equals the sum of the points of the user's recorded
\* transactions.
C29_PointsEqualTransactionSum ==
  (\A c \in LoyaltyCalls : loyalty.calls[c].pc \in {"idle", "returned"}) =>
     loyalty.loyalty_points = loyalty.transactionsTotal

---------------------------------------------------------------------------
(* submitChallengeScore over one row of the challenges table
   (admin-auth-store.ts) *)

\* each player submits a score at most MaxSubmissions times
MaxSubmissions == 2

\* the two players of the challenge, by their id columns
ChallengePlayers == {"challenger_id", "challenged_id"}

\* the scores submitted
ChallengeScores == {70, 72}

Null == <<>>

\* an accepted challenge without scores, and no call under way
AcceptedChallenge ==
  [ row |-> [ challenger_score |-> Null, challenged_score |-> Null,
              winner_id |-> Null, status |-> "accepted" ],
    calls |-> [p \in ChallengePlayers |-> [ pc |-> "idle", made |-> 0 ]],
    last |-> "none" ]

\* the updates submitChallengeScore computes from the row it read
challengeUpdates(read, userId, score) ==
  LET isChallenger == userId = "challenger_id"
      scoreUpdate == IF isChallenger THEN [ challenger_score |-> <<score>> ]
                     ELSE [ challenged_score |-> <<score>> ]
      otherScore == IF isChallenger THEN read.challenged_score
                    ELSE read.challenger_score
  IN  IF otherScore # Null
      THEN LET challengerFinal == IF isChallenger THEN score ELSE otherScore[1]
               challengedFinal == IF isChallenger THEN otherScore[1] ELSE score
               winner == IF challengerFinal < challengedFinal
                         THEN [ winner_id |-> <<"challenger_id">> ]
                         ELSE IF challengedFinal < challengerFinal
                         THEN [ winner_id |-> <<"challenged_id">> ]
                         ELSE << >>
           IN  Spread(Spread(scoreUpdate, winner), [ status |-> "completed" ])
      ELSE scoreUpdate

InitChallenge ==
  /\ challenge = AcceptedChallenge
  /\ params = IdleParams
  /\ now = 0
  /\ trigger = NotCalled
  /\ calledAt = 0
  /\ call = NoCall
  /\ store = InitialStore
  /\ hook = InitialHook
  /\ hist = InitialHist
  /\ tracker = IdleTracker
  /\ teeAlert = IdleTee
  /\ card = IdleCard
  /\ rounds = IdleRounds
  /\ units = IdleUnits
  /\ appSettings = IdleAppSettings
  /\ loyalty = IdleLoyalty

\* submitChallengeScore(challengeId, userId, score): the row is read and the
\* updates are computed
ChallengeRead ==
  /\ \E userId \in ChallengePlayers, score \in ChallengeScores :
       /\ challenge.calls[userId].pc = "idle"
       /\ challenge.calls[userId].made < MaxSubmissions
       /\ challenge' = [challenge EXCEPT
                          !.calls[userId] =
                             [ pc |-> "PATCH", made |-> @.made + 1,
                               updates |-> challengeUpdates(challenge.row,
                                                            userId, score) ],
                          !.last = "read"]
  /\ UNCHANGED <<params, now, trigger, calledAt, call, store, hook, hist,
                 tracker, teeAlert, card, rounds, units, appSettings,
                 loyalty>>

\* the read fails: the function returns false
ChallengeReadFailed ==
  /\ \E userId \in ChallengePlayers :
       /\ challenge.calls[userId].pc = "idle"
       /\ challenge.calls[userId].made < MaxSubmissions
       /\ challenge' = [challenge EXCEPT
                          !.calls[userId] = [ pc |-> "idle",
                                              made |-> @.made + 1 ],
                          !.last = "read failed"]
  /\ UNCHANGED <<params, now, trigger, calledAt, call, store, hook, hist,
                 tracker, teeAlert, card, rounds, units, appSettings,
                 loyalty>>

\* the PATCH is applied to the row
ChallengePatched ==
  /\ \E userId \in ChallengePlayers :
       /\ challenge.calls[userId].pc = "PATCH"
       /\ challenge' = [challenge EXCEPT
                          !.row = Spread(@, challenge.calls[userId].updates),
                          !.calls[userId] = [ pc |-> "idle",
                                              made |-> @.made ],
                          !.last = "PATCH"]
  /\ UNCHANGED <<params, now, trigger, calledAt, call, store, hook, hist,
                 tracker, teeAlert, card, rounds, units, appSettings,
                 loyalty>>

\* the PATCH fails: the function returns false
ChallengePatchFailed ==
  /\ \E userId \in ChallengePlayers :
       /\ challenge.calls[userId].pc = "PATCH"
       /\ challenge' = [challenge EXCEPT
                          !.calls[userId] = [ pc |-> "idle",
                                              made |-> @.made ],
                          !.last = "PATCH failed"]
  /\ UNCHANGED <<params, now, trigger, calledAt, call, store, hook, hist,
                 tracker, teeAlert, card, rounds, units, appSettings,
                 loyalty>>

NextChallenge ==
  \/ ChallengeRead
  \/ ChallengeReadFailed
  \/ ChallengePatched
  \/ ChallengePatchFailed

SpecChallenge == InitChallenge /\ [][NextChallenge]_vars

\* C30: once both scores are in the row and no submission is under way, the
\* status is 'completed' and winner_id is the player with the lower score,
\* null on a tie.
C30_BothSubmittedIsCompleted ==
  (/\ challenge.row.challenger_score # Null
   /\ challenge.row.challenged_score # Null
   /\ \A p \in ChallengePlayers : challenge.calls[p].pc = "idle") =>
     /\ challenge.row.status = "completed"
     /\ challenge.row.winner_id =
          IF challenge.row.challenger_score[1] < challenge.row.challenged_score[1]
          THEN <<"challenger_id">>
          ELSE IF challenge.row.challenged_score[1]
                    < challenge.row.challenger_score[1]
          THEN <<"challenged_id">>
          ELSE Null

====
